---- MODULE Spec2Model ----
(***************************************************************************)
(* A model of the MindMirror AI backend's resolution engine:               *)
(*   backend/ai/reflection_generator.py  (cache, safety check, validator,  *)
(*                                        OpenRouter / Hugging Face chain, *)
(*                                        template and minimal fallbacks)  *)
(*   backend/ai/reflection.py            (ReflectionGenerator.generate)    *)
(*   backend/ai/emotion.py, art.py       (model chains of the stages)      *)
(*   backend/ai/orchestrator.py          (AIOrchestrator: cache, pipeline) *)
(*                                                                         *)
(* Python dicts are TLA+ functions on their key set; a str is the sequence *)
(* of its characters; time.time() is the integer variable now.  The md5 of *)
(* get_cache_key is taken to be injective, so a key is the pair it hashes. *)
(* A network call is answered by the environment: the set of ways a chain  *)
(* can run is computed from every script of responses in a bounded set.    *)
(***************************************************************************)
EXTENDS Integers, Sequences, FiniteSets, TLC

VARIABLES
  now,                 \* time.time()
  OPENROUTER_API_KEY,  \* module global read from the environment at import
  _reflection_cache,   \* reflection_generator._reflection_cache
  _cache,              \* AIOrchestrator._cache
  last,                \* the call that finished last, as its caller saw it
  ticks,               \* how often the clock has advanced
  calls,               \* how many calls of process_input were made
  threads,             \* where each thread of the executor is in generate_reflection
  session_store,       \* app.session_store: its _sessions and _last_cleanup
  tasks                \* where each process_input coroutine of the event loop is

vars ==
  <<now, OPENROUTER_API_KEY, _reflection_cache, _cache, last, ticks, calls, threads,
    session_store, tasks>>

\* ------------------------------------------------------------------------
\* Python values
\* ------------------------------------------------------------------------

EmptyDict == [k \in {} |-> TRUE]

None == [NoneType |-> TRUE]

\* d[k] = v
DictSet(d, k, v) == [x \in (DOMAIN d) \cup {k} |-> IF x = k THEN v ELSE d[x]]

\* d.get(k, default)
DictGet(d, k, default) == IF k \in DOMAIN d THEN d[k] ELSE default

\* del d[k]
DictDel(d, k) == [x \in (DOMAIN d) \ {k} |-> d[x]]

\* bool(x) of a dict or None
Truthy(x) == x # None /\ x # EmptyDict

\* A JSON string where a dict is expected: a str has no .get
Str(s) == [str |-> s]

IsDict(x) == "str" \notin DOMAIN x

\* ------------------------------------------------------------------------
\* Text
\* ------------------------------------------------------------------------

\* A lone surrogate code point (what json.loads gives for "\udc80"): a str
\* may hold it, str.encode() cannot encode it.
Surrogate == "U+DC80"

UpperLetters ==
  <<"A", "B", "C", "D", "E", "F", "G", "H", "I", "J", "K", "L", "M",
    "N", "O", "P", "Q", "R", "S", "T", "U", "V", "W", "X", "Y", "Z">>

LowerLetters ==
  <<"a", "b", "c", "d", "e", "f", "g", "h", "i", "j", "k", "l", "m",
    "n", "o", "p", "q", "r", "s", "t", "u", "v", "w", "x", "y", "z">>

LowerChar(c) ==
  IF \E i \in DOMAIN UpperLetters : UpperLetters[i] = c
  THEN LowerLetters[CHOOSE i \in DOMAIN UpperLetters : UpperLetters[i] = c]
  ELSE c

\* str.lower()
Lower(text) == [i \in 1..Len(text) |-> LowerChar(text[i])]

\* needle in text
Contains(text, needle) ==
  \E i \in 0..(Len(text) - Len(needle)) :
    \A j \in 1..Len(needle) : text[i + j] = needle[j]

\* A str as the sequence of its characters.
Chars(str) == [i \in 1..Len(str) |-> SubSeq(str, i, i)]

Whitespace == {" ", "\t", "\n"}

\* not input_text, without the test of input_text.strip()
IsEmptyStr(text) == text = <<>>

\* not input_text or not input_text.strip()
IsBlank(text) == \A i \in 1..Len(text) : text[i] \in Whitespace

\* str.encode() succeeds
Encodable(text) == \A i \in 1..Len(text) : text[i] # Surrogate

TextEmpty == <<>>

TextBlank == <<" ", "\n">>

TextSad ==
  <<"I", " ", "f", "e", "e", "l", " ", "s", "a", "d">>

TextUrgent ==
  <<"I", " ", "w", "a", "n", "t", " ", "t", "o", " ", "K", "I", "L", "L",
    " ", "m", "y", "s", "e", "l", "f">>

TextNoise ==
  <<"s", "a", "d", " ", Surrogate>>

TextUrgentNoise ==
  <<"k", "i", "l", "l", " ", "m", "y", "s", "e", "l", "f", Surrogate>>

\* The input texts of the model.
Inputs == {TextEmpty, TextBlank, TextSad, TextUrgent, TextNoise, TextUrgentNoise}

\* user_context arguments: None, {} and a dict with a key.
CtxNone == [isNone |-> TRUE, dict |-> EmptyDict]

CtxEmpty == [isNone |-> FALSE, dict |-> EmptyDict]

Contexts == {CtxNone, CtxEmpty}

\* user_context or {}
OrEmptyDict(user_context) ==
  IF user_context.isNone THEN EmptyDict ELSE user_context.dict

\* ------------------------------------------------------------------------
\* reflection_generator.py: configuration
\* ------------------------------------------------------------------------

FREE_MODELS ==
  <<"google/gemini-flash-1.5",
    "meta-llama/llama-3.1-8b-instruct:free",
    "mistralai/mistral-7b-instruct:free">>

OPENROUTER_MODEL == FREE_MODELS[1]

MAX_RETRIES == 2

CACHE_TTL == 21600

ReflectionCacheLimit == 100

URGENT_KEYWORDS ==
  << <<"k", "i", "l", "l", " ", "m", "y", "s", "e", "l", "f">>,
     <<"e", "n", "d", " ", "m", "y", " ", "l", "i", "f", "e">>,
     <<"s", "u", "i", "c", "i", "d", "e">>,
     <<"w", "a", "n", "t", " ", "t", "o", " ", "d", "i", "e">>,
     <<"h", "a", "r", "m", " ", "m", "y", "s", "e", "l", "f">>,
     <<"c", "u", "t", " ", "m", "y", "s", "e", "l", "f">>,
     <<"h", "u", "r", "t", " ", "m", "y", "s", "e", "l", "f">>,
     <<"n", "o", " ", "r", "e", "a", "s", "o", "n", " ", "t", "o", " ", "l", "i", "v", "e">>,
     <<"b", "e", "t", "t", "e", "r", " ", "o", "f", "f", " ", "d", "e", "a", "d">> >>

\* ------------------------------------------------------------------------
\* reflection_generator.py: helper functions
\* ------------------------------------------------------------------------

\* The key, or the exception of combined.encode().
get_cache_key(input_text, user_context) ==
  IF Encodable(input_text)
  THEN [raised |-> "none", key |-> [text |-> input_text, ctx |-> user_context]]
  ELSE [raised |-> "UnicodeEncodeError", key |-> None]

\* A cache is [entries: key -> [result, timestamp], others: the number of
\* entries under keys of inputs outside Inputs].
EmptyCache == [entries |-> EmptyDict, others |-> 0]

\* The key of a text that was never cached before: its entry is counted in
\* others.
FreshKey == [text |-> <<"fresh">>, ctx |-> EmptyDict]

\* cache[key] = entry
CachePut(cache, key, entry) ==
  IF key = FreshKey THEN [cache EXCEPT !.others = @ + 1]
  ELSE [cache EXCEPT !.entries = DictSet(@, key, entry)]

CacheLen(cache) == Cardinality(DOMAIN cache.entries) + cache.others

\* get_cached_reflection with an entry still served at the second it expires
get_cached_reflection_inclusive(cache, cache_key, t) ==
  IF cache_key \in DOMAIN cache.entries
  THEN IF t - cache.entries[cache_key].timestamp <= CACHE_TTL
       THEN [value |-> cache.entries[cache_key].result, cache |-> cache]
       ELSE [value |-> None,
             cache |-> [cache EXCEPT !.entries = DictDel(@, cache_key)]]
  ELSE [value |-> None, cache |-> cache]

\* The value returned and the cache left behind.
get_cached_reflection(cache, cache_key, t) ==
  IF cache_key \in DOMAIN cache.entries
  THEN IF t - cache.entries[cache_key].timestamp < CACHE_TTL
       THEN [value |-> cache.entries[cache_key].result, cache |-> cache]
       ELSE [value |-> None,
             cache |-> [cache EXCEPT !.entries = DictDel(@, cache_key)]]
  ELSE [value |-> None, cache |-> cache]

set_cached_reflection(cache, cache_key, result, t) ==
  LET stored == CachePut(cache, cache_key, [result |-> result, timestamp |-> t])
  IN  IF CacheLen(stored) > ReflectionCacheLimit THEN EmptyCache ELSE stored

check_urgency(input_text) ==
  \E k \in DOMAIN URGENT_KEYWORDS :
    Contains(Lower(input_text), URGENT_KEYWORDS[k])

\* validate_reflection_json is applied to whatever json.loads returned: a
\* JSON object (dict), a JSON array (its items), or nothing when the text
\* is no JSON at all.
JsonDict(d) == [kind |-> "dict", dict |-> d, items |-> {}]

JsonList(s) == [kind |-> "list", dict |-> EmptyDict, items |-> s]

NotJson == [kind |-> "notjson", dict |-> EmptyDict, items |-> {}]

required_fields == {"reflection", "poem_line", "micro_actions", "severity", "tone"}

\* all(field in data for field in required_fields)
validate_reflection_json(data) ==
  \A field \in required_fields :
    IF data.kind = "dict" THEN field \in DOMAIN data.dict ELSE field \in data.items

\* ------------------------------------------------------------------------
\* What a provider can answer
\* ------------------------------------------------------------------------

PayloadGood ==
  [reflection |-> <<"provider reflection">>,
   poem_line |-> "provider poem",
   micro_actions |->
     << [label |-> "Breathing", duration_seconds |-> 60, instruction |-> "Deep breaths"] >>,
   severity |-> "notice",
   tone |-> "gentle",
   explainability |-> <<"provider rationale">>]

\* every required key, a severity outside the enum
PayloadBadEnum == [PayloadGood EXCEPT !.severity = "catastrophic"]

\* every required key, a micro action without duration_seconds and instruction
PayloadBadShape == [PayloadGood EXCEPT !.micro_actions = << [label |-> "Breathing"] >>]

\* every required key, a micro action that is a string
PayloadBadActions == [PayloadGood EXCEPT !.micro_actions = << Str("Breathing") >>]

\* required keys missing
PayloadMissing == [reflection |-> <<"provider reflection">>]

Http(status, content) == [kind |-> "http", status |-> status, content |-> content]

\* requests.Timeout
TimeoutResponse == [kind |-> "timeout", status |-> 0, content |-> NotJson]

\* any other exception of requests.post (requests.ConnectionError)
ErrorResponse == [kind |-> "error", status |-> 0, content |-> NotJson]

\* A run of a provider function: whether it returned, what it returned and
\* the model of every request it sent, in order.
Returned(value, requests) == [ok |-> TRUE, value |-> value, requests |-> requests]

Failed(requests) == [ok |-> FALSE, value |-> None, requests |-> requests]

\* ------------------------------------------------------------------------
\* reflection_generator.py: OpenRouter
\* ------------------------------------------------------------------------

\* call_openrouter_with_model giving up at the first answer that is not a
\* valid 200.
openrouter_attempt_once(script, model, attempt) ==
  LET response == script[attempt + 1]
  IN  IF /\ response.kind = "http"
         /\ response.status = 200
         /\ response.content.kind = "dict"
         /\ validate_reflection_json(response.content)
      THEN Returned(DictSet(DictSet(response.content.dict, "source", "openrouter"),
                            "model_used", model), <<model>>)
      ELSE Failed(<<model>>)

\* call_openrouter_with_model asking the same model again after a 200 whose
\* content is not JSON.
RECURSIVE openrouter_attempt_reparse(_, _, _)
openrouter_attempt_reparse(script, model, attempt) ==
  LET response == script[attempt + 1]
      sent == [i \in 1..(attempt + 1) |-> model]
  IN  IF /\ response.kind = "http"
         /\ response.status = 200
         /\ response.content.kind = "dict"
         /\ validate_reflection_json(response.content)
      THEN Returned(DictSet(DictSet(response.content.dict, "source", "openrouter"),
                            "model_used", model), sent)
      ELSE IF attempt < MAX_RETRIES /\ response.kind = "http" /\ response.status = 200
      THEN openrouter_attempt_reparse(script, model, attempt + 1)
      ELSE Failed(sent)

\* The loop of call_openrouter_with_model from iteration attempt on; script[i]
\* is the answer to the i-th request for this model.
RECURSIVE openrouter_attempt(_, _, _)
openrouter_attempt(script, model, attempt) ==
  LET response == script[attempt + 1]
      sent == [i \in 1..(attempt + 1) |-> model]
      continue == IF attempt < MAX_RETRIES
                  THEN openrouter_attempt(script, model, attempt + 1)
                  ELSE Failed(sent)
  IN  IF response.kind = "timeout" THEN continue
      ELSE IF response.kind = "error" THEN Failed(sent)
      ELSE IF response.status = 200
      THEN IF response.content.kind = "notjson" THEN Failed(sent)
           ELSE IF validate_reflection_json(response.content)
           THEN IF response.content.kind = "dict"
                THEN Returned(DictSet(DictSet(response.content.dict,
                                              "source", "openrouter"),
                                      "model_used", model), sent)
                ELSE Failed(sent)
           ELSE Failed(sent)
      ELSE IF response.status \in {429, 502, 503, 504} THEN continue
      ELSE IF response.status >= 400 THEN Failed(sent)
      ELSE continue

call_openrouter_with_model(script, model) == openrouter_attempt(script, model, 0)

models_to_try ==
  <<OPENROUTER_MODEL>> \o SelectSeq(FREE_MODELS, LAMBDA m : m # OPENROUTER_MODEL)

\* Every run of the loop of call_openrouter over models, each model answered
\* by a script of scripts; sent holds the requests made so far.
RECURSIVE openrouter_models(_, _, _)
openrouter_models(models, sent, scripts) ==
  IF models = <<>> THEN {Failed(sent)}
  ELSE UNION { LET run == call_openrouter_with_model(s, Head(models))
               IN  IF run.ok
                   THEN {Returned(run.value, sent \o run.requests)}
                   ELSE openrouter_models(Tail(models), sent \o run.requests, scripts)
               : s \in scripts }

NoKey == ""

call_openrouter(api_key, scripts) ==
  IF api_key = NoKey THEN {Failed(<<>>)}
  ELSE openrouter_models(models_to_try, <<>>, scripts)

\* ------------------------------------------------------------------------
\* reflection_generator.py: Hugging Face
\* ------------------------------------------------------------------------

hf_models ==
  <<"mistralai/Mistral-7B-Instruct-v0.2",
    "HuggingFaceH4/zephyr-7b-beta",
    "tiiuae/falcon-7b-instruct">>

\* One iteration of the loop of call_huggingface_fallback.
huggingface_model(response, model) ==
  IF response.kind = "http" /\ response.status = 200
       /\ response.content.kind = "dict"
       /\ validate_reflection_json(response.content)
  THEN Returned(DictSet(DictSet(response.content.dict, "source", "huggingface"),
                        "model_used", model), <<model>>)
  ELSE Failed(<<model>>)

RECURSIVE huggingface_models(_, _, _)
huggingface_models(models, sent, responses) ==
  IF models = <<>> THEN {Failed(sent)}
  ELSE UNION { LET run == huggingface_model(r, Head(models))
               IN  IF run.ok
                   THEN {Returned(run.value, sent \o run.requests)}
                   ELSE huggingface_models(Tail(models), sent \o run.requests, responses)
               : r \in responses }

call_huggingface_fallback(responses) == huggingface_models(hf_models, <<>>, responses)

\* ------------------------------------------------------------------------
\* reflection_generator.py: template and minimal fallbacks
\* ------------------------------------------------------------------------

\* A text of the source is named by where it stands ("sad.reflections[0]");
\* a reflection is the sequence of the texts it is formatted from.
EMERGENCY_RESOURCES ==
  [global |-> "If you're in crisis, please reach out: International Association for Suicide Prevention: https://www.iasp.info/resources/Crisis_Centres/"]

EMOTION_TEMPLATES ==
  "sad" :> [reflections |-> <<"sad.reflections[0]", "sad.reflections[1]", "sad.reflections[2]">>,
        poems |-> <<"sad.poems[0]", "sad.poems[1]", "sad.poems[2]">>,
        actions |->
       << [label |-> "Gentle breathing", duration_seconds |-> 120, instruction |-> "sad.actions[0].instruction"],
          [label |-> "Comfort ritual", duration_seconds |-> 180, instruction |-> "sad.actions[1].instruction"] >>,
        tone |-> "gentle"] @@
  "anxious" :> [reflections |-> <<"anxious.reflections[0]", "anxious.reflections[1]", "anxious.reflections[2]">>,
        poems |-> <<"anxious.poems[0]", "anxious.poems[1]", "anxious.poems[2]">>,
        actions |->
       << [label |-> "5-4-3-2-1 grounding", duration_seconds |-> 180, instruction |-> "anxious.actions[0].instruction"],
          [label |-> "Progressive relaxation", duration_seconds |-> 240, instruction |-> "anxious.actions[1].instruction"] >>,
        tone |-> "practical"] @@
  "angry" :> [reflections |-> <<"angry.reflections[0]", "angry.reflections[1]", "angry.reflections[2]">>,
        poems |-> <<"angry.poems[0]", "angry.poems[1]", "angry.poems[2]">>,
        actions |->
       << [label |-> "Physical release", duration_seconds |-> 120, instruction |-> "angry.actions[0].instruction"],
          [label |-> "Cooling breath", duration_seconds |-> 180, instruction |-> "angry.actions[1].instruction"] >>,
        tone |-> "encouraging"] @@
  "overwhelmed" :> [reflections |-> <<"overwhelmed.reflections[0]", "overwhelmed.reflections[1]", "overwhelmed.reflections[2]">>,
        poems |-> <<"overwhelmed.poems[0]", "overwhelmed.poems[1]", "overwhelmed.poems[2]">>,
        actions |->
       << [label |-> "Brain dump", duration_seconds |-> 300, instruction |-> "overwhelmed.actions[0].instruction"],
          [label |-> "One thing", duration_seconds |-> 120, instruction |-> "overwhelmed.actions[1].instruction"] >>,
        tone |-> "practical"] @@
  "lonely" :> [reflections |-> <<"lonely.reflections[0]", "lonely.reflections[1]", "lonely.reflections[2]">>,
        poems |-> <<"lonely.poems[0]", "lonely.poems[1]", "lonely.poems[2]">>,
        actions |->
       << [label |-> "Reach out", duration_seconds |-> 180, instruction |-> "lonely.actions[0].instruction"],
          [label |-> "Self-compassion", duration_seconds |-> 120, instruction |-> "lonely.actions[1].instruction"] >>,
        tone |-> "gentle"] @@
  "neutral" :> [reflections |-> <<"neutral.reflections[0]", "neutral.reflections[1]", "neutral.reflections[2]">>,
        poems |-> <<"neutral.poems[0]", "neutral.poems[1]", "neutral.poems[2]">>,
        actions |->
       << [label |-> "Mindful moment", duration_seconds |-> 120, instruction |-> "neutral.actions[0].instruction"],
          [label |-> "Gratitude pause", duration_seconds |-> 180, instruction |-> "neutral.actions[1].instruction"] >>,
        tone |-> "creative"]

\* The keyword lists of detect_emotion_from_text, in the order of its branches.
EMOTION_KEYWORDS ==
  << [emotion |-> "sad", words |->
        << <<"s", "a", "d">>,
           <<"d", "e", "p", "r", "e", "s", "s", "e", "d">>,
           <<"d", "o", "w", "n">>,
           <<"h", "o", "p", "e", "l", "e", "s", "s">>,
           <<"c", "r", "y", "i", "n", "g">> >>],
     [emotion |-> "anxious", words |->
        << <<"a", "n", "x", "i", "o", "u", "s">>,
           <<"w", "o", "r", "r", "i", "e", "d">>,
           <<"n", "e", "r", "v", "o", "u", "s">>,
           <<"p", "a", "n", "i", "c">>,
           <<"s", "c", "a", "r", "e", "d">>,
           <<"a", "f", "r", "a", "i", "d">> >>],
     [emotion |-> "angry", words |->
        << <<"a", "n", "g", "r", "y">>,
           <<"m", "a", "d">>,
           <<"f", "u", "r", "i", "o", "u", "s">>,
           <<"f", "r", "u", "s", "t", "r", "a", "t", "e", "d">>,
           <<"i", "r", "r", "i", "t", "a", "t", "e", "d">> >>],
     [emotion |-> "overwhelmed", words |->
        << <<"o", "v", "e", "r", "w", "h", "e", "l", "m", "e", "d">>,
           <<"t", "o", "o", " ", "m", "u", "c", "h">>,
           <<"c", "a", "n", "'", "t", " ", "h", "a", "n", "d", "l", "e">>,
           <<"s", "t", "r", "e", "s", "s", "e", "d">> >>],
     [emotion |-> "lonely", words |->
        << <<"l", "o", "n", "e", "l", "y">>,
           <<"a", "l", "o", "n", "e">>,
           <<"i", "s", "o", "l", "a", "t", "e", "d">>,
           <<"n", "o", "b", "o", "d", "y">> >>] >>

RECURSIVE first_emotion(_, _)
first_emotion(text_lower, k) ==
  IF k > Len(EMOTION_KEYWORDS) THEN "neutral"
  ELSE IF \E w \in DOMAIN EMOTION_KEYWORDS[k].words :
            Contains(text_lower, EMOTION_KEYWORDS[k].words[w])
       THEN EMOTION_KEYWORDS[k].emotion
       ELSE first_emotion(text_lower, k + 1)

detect_emotion_from_text(text) == first_emotion(Lower(text), 1)

\* generate_template_reflection drawing from the neutral templates whatever
\* the text is.
generate_template_reflection_neutral(input_text, user_context, choice) ==
  LET template == EMOTION_TEMPLATES["neutral"]
  IN  [reflection |-> <<template.reflections[choice.reflection]>>,
       poem_line |-> template.poems[choice.poem],
       micro_actions |-> SubSeq(template.actions, 1, 2),
       severity |-> "calm",
       tone |-> template.tone,
       explainability |-> <<"Detected emotion: ", detect_emotion_from_text(input_text)>>,
       source |-> "template",
       model_used |-> "template_v1"]

\* choice holds what random.choice picked: an index into the reflections and
\* one into the poems.
generate_template_reflection(input_text, user_context, choice) ==
  LET emotion == detect_emotion_from_text(input_text)
      template == DictGet(EMOTION_TEMPLATES, emotion, EMOTION_TEMPLATES["neutral"])
      reflection == <<template.reflections[choice.reflection]>>
      urgent == check_urgency(input_text)
  IN  [reflection |-> IF urgent THEN reflection \o <<EMERGENCY_RESOURCES.global>>
                      ELSE reflection,
       poem_line |-> template.poems[choice.poem],
       micro_actions |-> SubSeq(template.actions, 1, 2),
       severity |-> IF urgent THEN "urgent"
                    ELSE IF emotion \in {"anxious", "overwhelmed", "angry"} THEN "notice"
                    ELSE "calm",
       tone |-> template.tone,
       explainability |-> <<"Detected emotion: ", emotion>>,
       source |-> "template",
       model_used |-> "template_v1"]

\* generate_minimal_fallback with a severity outside the enumeration.
generate_minimal_fallback_severe(input_text, user_context) ==
  [reflection |-> <<"I hear you.">>,
   poem_line |-> "One breath at a time, you find your way.",
   micro_actions |-> << [label |-> "Deep breathing", duration_seconds |-> 60,
                         instruction |-> "Breathe in slowly."] >>,
   severity |-> "severe",
   tone |-> "gentle",
   explainability |-> <<"Minimal safe response provided due to system limitations.">>,
   source |-> "minimal_fallback",
   model_used |-> "none",
   notes |-> "All AI services temporarily unavailable. This is a safe fallback response."]

generate_minimal_fallback(input_text, user_context) ==
  LET is_urgent == check_urgency(input_text)
  IN  [reflection |->
         IF is_urgent
         THEN <<"I hear you, and I'm concerned. Please reach out for immediate support. ",
                EMERGENCY_RESOURCES.global>>
         ELSE <<"I hear you. That sounds really heavy. Try taking a few deep breaths right now. You're not alone in this.">>,
       poem_line |-> "One breath at a time, you find your way.",
       micro_actions |->
         << [label |-> "Deep breathing", duration_seconds |-> 60,
             instruction |-> "Breathe in slowly for 4 counts, hold for 4, out for 6. Repeat 3 times."] >>,
       severity |-> IF is_urgent THEN "urgent" ELSE "notice",
       tone |-> "gentle",
       explainability |-> <<"Minimal safe response provided due to system limitations.">>,
       source |-> "minimal_fallback",
       model_used |-> "none",
       notes |-> "All AI services temporarily unavailable. This is a safe fallback response."]

\* ------------------------------------------------------------------------
\* reflection_generator.py: generate_reflection
\* ------------------------------------------------------------------------

\* The environment of one call: env.scripts answers each OpenRouter model,
\* env.responses each Hugging Face model, env.template is what the template
\* generator may do: [fault |-> it raises, reflection, poem |-> the indices
\* random.choice picks].

Ran(ret, invoked, requests) == [ret |-> ret, invoked |-> invoked, requests |-> requests]

\* The tiers with Hugging Face asked first and OpenRouter only after it
\* failed.
reflection_tiers_swapped(api_key, input_text, user_context, env) ==
  UNION {
    IF h.ok THEN {Ran(h.value, <<"call_huggingface_fallback">>, h.requests)}
    ELSE { IF o.ok
           THEN Ran(o.value, <<"call_huggingface_fallback", "call_openrouter">>,
                    h.requests \o o.requests)
           ELSE Ran(generate_minimal_fallback(input_text, user_context),
                    <<"call_huggingface_fallback", "call_openrouter",
                      "generate_minimal_fallback">>,
                    h.requests \o o.requests)
           : o \in call_openrouter(api_key, env.scripts) }
    : h \in call_huggingface_fallback(env.responses) }

\* Lines 584-613: the tiers after the cache and urgency checks, every way
\* they can run.
reflection_tiers(api_key, input_text, user_context, env) ==
  UNION {
    IF o.ok THEN {Ran(o.value, <<"call_openrouter">>, o.requests)}
    ELSE UNION {
      IF h.ok
      THEN {Ran(DictSet(h.value, "notes",
                        "Using fallback AI service (primary temporarily unavailable)"),
                <<"call_openrouter", "call_huggingface_fallback">>,
                o.requests \o h.requests)}
      ELSE {IF c.fault
            THEN Ran(generate_minimal_fallback(input_text, user_context),
                     <<"call_openrouter", "call_huggingface_fallback",
                       "generate_template_reflection", "generate_minimal_fallback">>,
                     o.requests \o h.requests)
            ELSE Ran(DictSet(generate_template_reflection(input_text, user_context, c),
                             "notes",
                             "Using local reflection (AI services temporarily limited)"),
                     <<"call_openrouter", "call_huggingface_fallback",
                       "generate_template_reflection">>,
                     o.requests \o h.requests)
            : c \in env.template}
      : h \in call_huggingface_fallback(env.responses) }
    : o \in call_openrouter(api_key, env.scripts) }

\* What a call did: the exception it raised or the dict it returned, the
\* cache it left, the functions of the ladder it invoked and the requests it
\* sent.
Outcome(raised, ret, cache, invoked, requests) ==
  [raised |-> raised, ret |-> ret, cache |-> cache,
   invoked |-> invoked, requests |-> requests]

\* Every way generate_reflection(input_text, user_context) can run from
\* cache at time t.
generate_reflection(cache, t, api_key, input_text, user_context, env) ==
  IF IsBlank(input_text)
  THEN {Outcome("none",
                generate_minimal_fallback(<<>>, OrEmptyDict(user_context)),
                cache, <<"generate_minimal_fallback">>, <<>>)}
  ELSE
    LET context == OrEmptyDict(user_context)
        k == get_cache_key(input_text, context)
    IN  IF k.raised # "none"
        THEN {Outcome(k.raised, None, cache, <<>>, <<>>)}
        ELSE
          LET got == get_cached_reflection(cache, k.key, t)
          IN  IF Truthy(got.value)
              THEN LET cached == DictSet(got.value, "from_cache", TRUE)
                   IN  {Outcome("none", cached,
                                [got.cache EXCEPT !.entries[k.key].result = cached],
                                <<>>, <<>>)}
              ELSE IF check_urgency(input_text)
              THEN LET result == DictSet(generate_minimal_fallback(input_text, context),
                                         "severity", "urgent")
                   IN  {Outcome("none", result,
                                set_cached_reflection(got.cache, k.key, result, t),
                                <<"generate_minimal_fallback">>, <<>>)}
              ELSE {Outcome("none", run.ret,
                            set_cached_reflection(got.cache, k.key, run.ret, t),
                            run.invoked, run.requests)
                    : run \in reflection_tiers(api_key, input_text, context, env)}

\* ------------------------------------------------------------------------
\* reflection.py: ReflectionGenerator
\* ------------------------------------------------------------------------

RECURSIVE JoinActions(_)
\* " | ".join of "label: instruction" over the actions
JoinActions(actions) ==
  IF actions = <<>> THEN <<>>
  ELSE <<DictGet(Head(actions), "label", ""), ": ",
         DictGet(Head(actions), "instruction", "")>>
       \o (IF Len(actions) > 1 THEN <<" | ">> ELSE <<>>)
       \o JoinActions(Tail(actions))

\* [raised, value]: action.get raises AttributeError on an action that is
\* no dict.
_format_micro_actions(actions) ==
  IF actions = <<>>
  THEN [raised |-> "none", value |-> <<"Take a moment to breathe and be present.">>]
  ELSE IF \E i \in DOMAIN actions : ~IsDict(actions[i])
  THEN [raised |-> "AttributeError", value |-> <<>>]
  ELSE [raised |-> "none", value |-> JoinActions(actions)]

\* The user_context ReflectionGenerator.generate builds.
reflection_context(emotion, emotion_scores) ==
  [recent_mood_tags |-> IF emotion # "" THEN <<emotion>> ELSE <<>>,
   emotion_scores |-> emotion_scores,
   language |-> "en",
   sensitivity |-> "medium"]

\* Lines 57-68: the dict generate returns for a result of generate_reflection.
reflection_format(result) ==
  [reflection |-> DictGet(result, "reflection", <<>>),
   poem |-> DictGet(result, "poem_line", ""),
   advice |-> _format_micro_actions(DictGet(result, "micro_actions", <<>>)).value,
   model_used |-> DictGet(result, "model_used", "unknown"),
   fallback |-> DictGet(result, "source", "") # "openrouter",
   severity |-> DictGet(result, "severity", "calm"),
   tone |-> DictGet(result, "tone", "gentle"),
   micro_actions |-> DictGet(result, "micro_actions", <<>>),
   explainability |-> DictGet(result, "explainability", <<>>),
   notes |-> DictGet(result, "notes", "")]

\* Every way ReflectionGenerator.generate can run: [raised, value, cache,
\* invoked, requests].
ReflectionGenerator_generate(cache, t, api_key, content, emotion, emotion_scores, env) ==
  { IF o.raised # "none" THEN o
    ELSE IF _format_micro_actions(DictGet(o.ret, "micro_actions", <<>>)).raised # "none"
    THEN [o EXCEPT !.raised = "AttributeError", !.ret = None]
    ELSE [o EXCEPT !.ret = reflection_format(o.ret)]
    : o \in generate_reflection(cache, t, api_key, content,
                                [isNone |-> FALSE,
                                 dict |-> reflection_context(emotion, emotion_scores)],
                                env) }

\* ------------------------------------------------------------------------
\* model_registry.py
\* ------------------------------------------------------------------------

EMOTION_MODELS ==
  <<"j-hartmann/emotion-english-distilroberta-base",
    "nateraw/bert-base-uncased-emotion",
    "bhadresh-savani/distilbert-base-uncased-emotion">>

ART_MODELS ==
  <<"stabilityai/stable-diffusion-2-1-base",
    "CompVis/stable-diffusion-v1-4",
    "runwayml/stable-diffusion-v1-5">>

\* ------------------------------------------------------------------------
\* emotion.py: EmotionAnalyzer
\* ------------------------------------------------------------------------

emotion_map ==
  "happy" :> "joy" @@ "happiness" :> "joy" @@ "excited" :> "joy" @@
  "sad" :> "sadness" @@ "sadness" :> "sadness" @@ "depressed" :> "sadness" @@
  "angry" :> "anger" @@ "anger" :> "anger" @@ "mad" :> "anger" @@
  "scared" :> "fear" @@ "fear" :> "fear" @@ "anxious" :> "fear" @@
  "anxiety" :> "fear" @@ "worried" :> "fear" @@ "love" :> "love" @@
  "affection" :> "love" @@ "caring" :> "love" @@ "surprised" :> "surprise" @@
  "surprise" :> "surprise" @@ "amazed" :> "surprise" @@ "neutral" :> "neutral" @@
  "calm" :> "neutral"

\* label.lower() of the labels the providers of the model answer with
LowerLabel(label) ==
  IF label = "Joy" THEN "joy" ELSE IF label = "SADNESS" THEN "sadness" ELSE label

_normalize_emotion_label(label) ==
  DictGet(emotion_map, LowerLabel(label), LowerLabel(label))

RECURSIVE ScoresOf(_)
\* scores[label] = score over the predictions in order: a later one wins
ScoresOf(predictions) ==
  IF predictions = <<>> THEN EmptyDict
  ELSE LET p == predictions[Len(predictions)]
       IN  DictSet(ScoresOf(SubSeq(predictions, 1, Len(predictions) - 1)),
                   _normalize_emotion_label(LowerLabel(p.label)), p.score)

\* Lines 86-104: the result built from data[0]; scores are in hundredths.
predicted(predictions, model) ==
  LET top == SubSeq(predictions, 1, IF Len(predictions) < 3 THEN Len(predictions) ELSE 3)
  IN  [emotions |-> [i \in 1..Len(top) |-> _normalize_emotion_label(LowerLabel(top[i].label))],
       scores |-> ScoresOf(top),
       model_used |-> model,
       fallback |-> FALSE]

\* The body of a response: data |-> "list" with data[0] = predictions, or
\* anything else (an empty list, an error object).
Predictions(p) == [data |-> "list", predictions |-> p]

OtherBody == [data |-> "other", predictions |-> <<>>]

\* EmotionAnalyzer._call_model: script[1] answers the request, script[2] the
\* retry after a 503.  The value is the result or None.
EmotionAnalyzer_call_model(script, model) ==
  LET first == script[1]
      second == script[2]
  IN  IF first.kind # "http" THEN [value |-> None, requests |-> <<model>>]
      ELSE IF first.status = 200
      THEN [value |-> IF first.content.data = "list"
                      THEN predicted(first.content.predictions, model)
                      ELSE None,
            requests |-> <<model>>]
      ELSE IF first.status = 503
      THEN [value |-> IF second.kind = "http" /\ second.status = 200
                         /\ second.content.data = "list"
                      THEN predicted(second.content.predictions, model)
                      ELSE None,
            requests |-> <<model, model>>]
      ELSE [value |-> None, requests |-> <<model>>]

\* The keyword table of _template_fallback, in the order of the dict.
emotion_keywords ==
  << [emotion |-> "joy", keywords |->
        << <<"h", "a", "p", "p", "y">>,
           <<"j", "o", "y">>,
           <<"e", "x", "c", "i", "t", "e", "d">>,
           <<"g", "r", "e", "a", "t">>,
           <<"w", "o", "n", "d", "e", "r", "f", "u", "l">>,
           <<"a", "m", "a", "z", "i", "n", "g">>,
           <<"l", "o", "v", "e">>,
           <<"g", "l", "a", "d">> >>],
     [emotion |-> "sadness", keywords |->
        << <<"s", "a", "d">>,
           <<"d", "e", "p", "r", "e", "s", "s", "e", "d">>,
           <<"d", "o", "w", "n">>,
           <<"u", "n", "h", "a", "p", "p", "y">>,
           <<"m", "i", "s", "e", "r", "a", "b", "l", "e">>,
           <<"c", "r", "y", "i", "n", "g">>,
           <<"t", "e", "a", "r", "s">> >>],
     [emotion |-> "anger", keywords |->
        << <<"a", "n", "g", "r", "y">>,
           <<"m", "a", "d">>,
           <<"f", "u", "r", "i", "o", "u", "s">>,
           <<"a", "n", "n", "o", "y", "e", "d">>,
           <<"f", "r", "u", "s", "t", "r", "a", "t", "e", "d">>,
           <<"i", "r", "r", "i", "t", "a", "t", "e", "d">> >>],
     [emotion |-> "fear", keywords |->
        << <<"s", "c", "a", "r", "e", "d">>,
           <<"a", "f", "r", "a", "i", "d">>,
           <<"a", "n", "x", "i", "o", "u", "s">>,
           <<"w", "o", "r", "r", "i", "e", "d">>,
           <<"n", "e", "r", "v", "o", "u", "s">>,
           <<"f", "e", "a", "r">>,
           <<"p", "a", "n", "i", "c">> >>],
     [emotion |-> "love", keywords |->
        << <<"l", "o", "v", "e">>,
           <<"a", "d", "o", "r", "e">>,
           <<"c", "h", "e", "r", "i", "s", "h">>,
           <<"c", "a", "r", "e">>,
           <<"a", "f", "f", "e", "c", "t", "i", "o", "n">> >>],
     [emotion |-> "surprise", keywords |->
        << <<"s", "u", "r", "p", "r", "i", "s", "e", "d">>,
           <<"s", "h", "o", "c", "k", "e", "d">>,
           <<"a", "m", "a", "z", "e", "d">>,
           <<"u", "n", "e", "x", "p", "e", "c", "t", "e", "d">>,
           <<"w", "o", "w">> >>],
     [emotion |-> "gratitude", keywords |->
        << <<"t", "h", "a", "n", "k">>,
           <<"g", "r", "a", "t", "e", "f", "u", "l">>,
           <<"a", "p", "p", "r", "e", "c", "i", "a", "t", "e">>,
           <<"t", "h", "a", "n", "k", "f", "u", "l">> >>],
     [emotion |-> "neutral", keywords |-> << >>] >>

KeywordCount(text_lower, keywords) ==
  Cardinality({k \in DOMAIN keywords : Contains(text_lower, keywords[k])})

\* EmotionAnalyzer._template_fallback; scores are in hundredths.
EmotionAnalyzer_template_fallback(text) ==
  LET text_lower == Lower(text)
      count(i) == KeywordCount(text_lower, emotion_keywords[i].keywords)
      matched == {i \in DOMAIN emotion_keywords : count(i) > 0}
      score(i) == IF matched = {} THEN 70
                  ELSE IF count(i) * 30 < 90 THEN count(i) * 30 ELSE 90
      \* the keys of scores, in insertion order
      keys == IF matched = {} THEN {Len(emotion_keywords)} ELSE matched
      \* sorted(..., reverse=True) is stable
      before(i) == Cardinality({j \in keys : score(j) > score(i)
                                             \/ (score(j) = score(i) /\ j < i)})
      sorted == [r \in 1..Cardinality(keys) |-> CHOOSE i \in keys : before(i) = r - 1]
      top == SubSeq(sorted, 1, IF Len(sorted) < 3 THEN Len(sorted) ELSE 3)
  IN  [emotions |-> [r \in 1..Len(top) |-> emotion_keywords[top[r]].emotion],
       scores |-> [e \in {emotion_keywords[i].emotion : i \in keys} |->
                     score(CHOOSE i \in keys : emotion_keywords[i].emotion = e)],
       model_used |-> "template",
       fallback |-> TRUE]

\* Every run of the loop of analyze over models, each answered by a script
\* of scripts: [value, requests].
RECURSIVE analyze_models(_, _, _, _)
analyze_models(models, sent, text, scripts) ==
  IF models = <<>>
  THEN {[value |-> EmotionAnalyzer_template_fallback(text), requests |-> sent]}
  ELSE UNION { LET run == EmotionAnalyzer_call_model(s, Head(models))
               IN  IF Truthy(run.value)
                   THEN {[value |-> run.value, requests |-> sent \o run.requests]}
                   ELSE analyze_models(Tail(models), sent \o run.requests, text, scripts)
               : s \in scripts }

EmotionAnalyzer_analyze(text, scripts) == analyze_models(EMOTION_MODELS, <<>>, text, scripts)

\* ------------------------------------------------------------------------
\* art.py: ArtGenerator
\* ------------------------------------------------------------------------

\* ArtGenerator._call_model: the result or None.
ArtGenerator_call_model(response, model) ==
  IF response.kind = "http" /\ response.status = 200
  THEN [image |-> response.content, model_used |-> model, fallback |-> FALSE]
  ELSE None

color_schemes == {"joy", "sadness", "anger", "fear", "love", "surprise", "neutral"}

\* The image is the SVG drawn in the colours of the emotion's scheme.
_svg_fallback(emotion) ==
  [image |-> [svg |-> IF emotion \in color_schemes THEN emotion ELSE "neutral"],
   model_used |-> "procedural_svg",
   fallback |-> TRUE, format |-> "svg"]

RECURSIVE art_models(_, _, _, _)
art_models(models, sent, emotion, responses) ==
  IF models = <<>> THEN {[value |-> _svg_fallback(emotion), requests |-> sent]}
  ELSE UNION { LET result == ArtGenerator_call_model(r, Head(models))
               IN  IF Truthy(result)
                   THEN {[value |-> result, requests |-> Append(sent, Head(models))]}
                   ELSE art_models(Tail(models), Append(sent, Head(models)),
                                   emotion, responses)
               : r \in responses }

\* ArtGenerator.generate going through the models from the last to the
\* first.
ArtGenerator_generate_reversed(emotion, responses) ==
  art_models(<<ART_MODELS[3], ART_MODELS[2], ART_MODELS[1]>>, <<>>, emotion, responses)

ArtGenerator_generate(emotion, responses) == art_models(ART_MODELS, <<>>, emotion, responses)

\* ------------------------------------------------------------------------
\* speech.py: SpeechProcessor
\* ------------------------------------------------------------------------

TRANSCRIPTION_MODELS ==
  <<"openai/whisper-tiny", "openai/whisper-base", "facebook/wav2vec2-base-960h">>

\* Every run of the loop of SpeechProcessor.transcribe over models, each
\* answered by one of responses: [value, requests].  A model gives a result
\* when it answers 200 with a JSON object whose text is not empty; after the
\* last model comes _transcription_fallback.
RECURSIVE SpeechProcessor_transcribe(_, _, _)
SpeechProcessor_transcribe(models, sent, responses) ==
  IF models = <<>>
  THEN {[value |-> [text |-> "[Audio transcription requires model setup. Please speak clearly and try again, or use text input.]",
                    model_used |-> "none", fallback |-> TRUE,
                    note |-> "Install speech_recognition library and configure for local transcription"],
         requests |-> sent]}
  ELSE UNION { IF /\ r.kind = "http"
                  /\ r.status = 200
                  /\ r.content.kind = "dict"
                  /\ DictGet(r.content.dict, "text", "") # ""
               THEN {[value |-> [text |-> r.content.dict.text, model_used |-> Head(models),
                                 fallback |-> FALSE],
                      requests |-> Append(sent, Head(models))]}
               ELSE SpeechProcessor_transcribe(Tail(models), Append(sent, Head(models)),
                                               responses)
               : r \in responses }

\* ------------------------------------------------------------------------
\* orchestrator.py: AIOrchestrator
\* ------------------------------------------------------------------------

_cache_ttl == 300

\* the size above which _set_cached sweeps
OrchestratorCacheLimit == 100

\* self._cache: entries are the keys of the contents of the model, others
\* counts, by timestamp, the entries under any other key.
EmptyOrchestratorCache == [entries |-> EmptyDict, others |-> EmptyDict]

RECURSIVE BagSize(_)
BagSize(bag) ==
  IF DOMAIN bag = {} THEN 0
  ELSE LET k == CHOOSE x \in DOMAIN bag : TRUE
       IN  bag[k] + BagSize(DictDel(bag, k))

OrchestratorCacheLen(cache) == Cardinality(DOMAIN cache.entries) + BagSize(cache.others)

\* The key of a content that was never cached before: its entry is counted in
\* others, under its timestamp.
FreshOrchestratorKey == [operation |-> "emotion", content |-> <<"fresh">>]

\* self._cache[key] = entry
OrchestratorCachePut(cache, key, entry) ==
  IF key = FreshOrchestratorKey
  THEN [cache EXCEPT !.others =
          DictSet(@, entry.timestamp, DictGet(@, entry.timestamp, 0) + 1)]
  ELSE [cache EXCEPT !.entries = DictSet(@, key, entry)]

\* content.encode() raises on a lone surrogate; the key is the operation and
\* the digest of the content.
_get_cache_key(content, operation) ==
  IF Encodable(content)
  THEN [raised |-> "none", key |-> [operation |-> operation, content |-> content]]
  ELSE [raised |-> "UnicodeEncodeError", key |-> None]

\* _get_cached that empties the cache when it finds an expired entry.
_get_cached_clearing(cache, key, t) ==
  IF key \in DOMAIN cache.entries
  THEN IF t - cache.entries[key].timestamp < _cache_ttl
       THEN [value |-> cache.entries[key].data, cache |-> cache]
       ELSE [value |-> None, cache |-> [cache EXCEPT !.entries = EmptyDict]]
  ELSE [value |-> None, cache |-> cache]

\* [value |-> the cached data or None, cache |-> the cache afterwards]
_get_cached(cache, key, t) ==
  IF key \in DOMAIN cache.entries
  THEN IF t - cache.entries[key].timestamp < _cache_ttl
       THEN [value |-> cache.entries[key].data, cache |-> cache]
       ELSE [value |-> None,
             cache |-> [cache EXCEPT !.entries = DictDel(@, key)]]
  ELSE [value |-> None, cache |-> cache]

_set_cached(cache, key, data, t) ==
  LET stored == OrchestratorCachePut(cache, key, [data |-> data, timestamp |-> t])
      live(timestamp) == t - timestamp < _cache_ttl
  IN  IF OrchestratorCacheLen(stored) > OrchestratorCacheLimit
      THEN [entries |-> [k \in {x \in DOMAIN stored.entries :
                                  live(stored.entries[x].timestamp)}
                           |-> stored.entries[k]],
            others |-> [ts \in {x \in DOMAIN stored.others : live(x)}
                          |-> stored.others[ts]]]
      ELSE stored

\* Lines 78-89
InitialResults ==
  [emotions |-> <<>>, emotion_scores |-> EmptyDict, reflection |-> <<>>,
   poem |-> "", advice |-> <<>>, art_image |-> None, voice_audio |-> None,
   model_versions |-> EmptyDict, processing_time |-> 0, fallback_used |-> FALSE]

\* What a call of process_input did so far: the steps it began, the stage
\* objects it awaited, the functions of the reflection ladder invoked and the
\* requests sent, and the step in which an exception reached the handler.
NoTrace ==
  [steps |-> <<>>, awaited |-> <<>>, handed |-> <<>>, invoked |-> <<>>,
   requests |-> <<>>, failed |-> "none"]

Processed(results, cache, rcache, trace) ==
  [raised |-> "none", ret |-> results, cache |-> cache, rcache |-> rcache,
   trace |-> trace]

\* process_input without the handler of its try: the exception reaches the
\* caller
PipelineRaise(results, cache, rcache, trace, e) ==
  [raised |-> e, ret |-> None, cache |-> cache, rcache |-> rcache,
   trace |-> [trace EXCEPT !.failed = trace.steps[Len(trace.steps)]]]

\* the handler answering with a fresh results dict
PipelineErrorFresh(results, cache, rcache, trace, e) ==
  Processed(DictSet(DictSet(DictSet(InitialResults, "error", e), "processing_time", 0),
                    "fallback_used", TRUE),
            cache, rcache,
            [trace EXCEPT !.failed = trace.steps[Len(trace.steps)]])

\* Lines 150-156: the handler of the pipeline's try.
PipelineError(results, cache, rcache, trace, e) ==
  Processed(DictSet(DictSet(DictSet(results, "error", e), "processing_time", 0),
                    "fallback_used", TRUE),
            cache, rcache,
            [trace EXCEPT !.failed = trace.steps[Len(trace.steps)]])

\* Step 3 with art_generator.generate(emotion="neutral") whatever the
\* emotion analysis found.
art_step_neutral(results, cache, rcache, trace, primary_emotion, env) ==
  LET began == [trace EXCEPT !.steps = Append(@, "art"),
                             !.awaited = Append(@, "art_generator.generate"),
                             !.handed = Append(@, "neutral")]
  IN  { LET art_result == run.value
        IN  Processed([results EXCEPT
                         !.art_image = DictGet(art_result, "image", None),
                         !.model_versions =
                            DictSet(@, "art", DictGet(art_result, "model_used", "procedural")),
                         !.fallback_used = @ \/ DictGet(art_result, "fallback", FALSE),
                         !.processing_time = 0],
                      cache, rcache,
                      [began EXCEPT !.requests = @ \o run.requests])
        : run \in ArtGenerator_generate("neutral", env.art) }
      \cup (IF env.art_raises
            THEN {PipelineError(results, cache, rcache, began, "art stage failed")}
            ELSE {})

\* Lines 127-148: step 3 and the return.  env.art_raises: the awaited
\* art_generator.generate may raise.  trace.handed: the emotion arguments of
\* the generators awaited.
art_step(results, cache, rcache, trace, primary_emotion, env) ==
  LET began == [trace EXCEPT !.steps = Append(@, "art"),
                             !.awaited = Append(@, "art_generator.generate"),
                             !.handed = Append(@, primary_emotion)]
  IN  { LET art_result == run.value
        IN  Processed([results EXCEPT
                         !.art_image = DictGet(art_result, "image", None),
                         !.model_versions =
                            DictSet(@, "art", DictGet(art_result, "model_used", "procedural")),
                         !.fallback_used = @ \/ DictGet(art_result, "fallback", FALSE),
                         !.processing_time = 0],
                      cache, rcache,
                      [began EXCEPT !.requests = @ \o run.requests])
        : run \in ArtGenerator_generate(primary_emotion, env.art) }
      \cup (IF env.art_raises
            THEN {PipelineError(results, cache, rcache, began, "art stage failed")}
            ELSE {})

\* Lines 106-125: step 2, then step 3.
reflection_step(results, cache, rcache, trace, t, api_key, content, env) ==
  LET primary_emotion == IF results.emotions # <<>> THEN results.emotions[1] ELSE "neutral"
      began == [trace EXCEPT !.steps = Append(@, "reflection")]
      k == _get_cache_key(content \o <<":", primary_emotion>>, "reflection")
      got == _get_cached(cache, k.key, t)
      filled(reflection_result) ==
        [results EXCEPT
           !.reflection = DictGet(reflection_result, "reflection", <<>>),
           !.poem = DictGet(reflection_result, "poem", ""),
           !.advice = DictGet(reflection_result, "advice", <<>>),
           !.model_versions =
              DictSet(@, "reflection", DictGet(reflection_result, "model_used", "template")),
           !.fallback_used = @ \/ DictGet(reflection_result, "fallback", FALSE)]
  IN  IF k.raised # "none"
      THEN {PipelineError(results, cache, rcache, began, k.raised)}
      ELSE IF Truthy(got.value)
      THEN art_step(filled(got.value), got.cache, rcache, began, primary_emotion, env)
      ELSE UNION {
        LET awaited == [began EXCEPT
                          !.awaited = Append(@, "reflection_generator.generate"),
                          !.handed = Append(@, primary_emotion),
                          !.invoked = o.invoked,
                          !.requests = @ \o o.requests]
        IN  IF o.raised # "none"
            THEN {PipelineError(results, got.cache, o.cache, awaited, o.raised)}
            ELSE art_step(filled(o.ret), _set_cached(got.cache, k.key, o.ret, t),
                          o.cache, awaited, primary_emotion, env)
        : o \in ReflectionGenerator_generate(rcache, t, api_key, content, primary_emotion,
                                             results.emotion_scores, env) }

\* Every way process_input(content) can run at time t from the orchestrator's
\* cache and the reflection cache: lines 77-104, then steps 2 and 3.
process_input(cache, rcache, t, api_key, content, env) ==
  LET began == [NoTrace EXCEPT !.steps = <<"emotion">>]
      k == _get_cache_key(content, "emotion")
      got == _get_cached(cache, k.key, t)
      \* await self.emotion_analyzer.analyze(content): the analyzer, or the
      \* mock a test patched in its place
      analyzed ==
        IF env.analyze_returns = {}
        THEN EmotionAnalyzer_analyze(content, env.emotion)
        ELSE {[value |-> v, requests |-> <<>>] : v \in env.analyze_returns}
      filled(emotion_result) ==
        [InitialResults EXCEPT
           !.emotions = DictGet(emotion_result, "emotions", <<"neutral">>),
           !.emotion_scores = DictGet(emotion_result, "scores", EmptyDict),
           !.model_versions =
              DictSet(@, "emotion", DictGet(emotion_result, "model_used", "template")),
           !.fallback_used = @ \/ DictGet(emotion_result, "fallback", FALSE)]
  IN  IF k.raised # "none"
      THEN {PipelineError(InitialResults, cache, rcache, began, k.raised)}
      ELSE IF Truthy(got.value)
      THEN reflection_step(filled(got.value), got.cache, rcache, began,
                           t, api_key, content, env)
      ELSE UNION {
        reflection_step(filled(run.value), _set_cached(got.cache, k.key, run.value, t),
                        rcache,
                        [began EXCEPT !.awaited = <<"emotion_analyzer.analyze">>,
                                      !.requests = run.requests],
                        t, api_key, content, env)
        : run \in analyzed }

\* ------------------------------------------------------------------------
\* The environment
\* ------------------------------------------------------------------------

\* How often the clock advances in a behaviour.
MaxTicks == 1

\* How many calls of process_input a behaviour makes.
MaxCalls == 2

\* The clock advances to the last second an entry of the reflection cache
\* lives, or to its expiry.
TickSteps == {CACHE_TTL - 1, CACHE_TTL}

\* The same for the orchestrator's cache.
OrchestratorTickSteps == {_cache_ttl - 1, _cache_ttl}

ApiKeys == {NoKey, "sk-or-test"}

\* A script answers MAX_RETRIES + 1 requests; the answers after those given
\* are connection errors.
Script(answers) ==
  [i \in 1..(MAX_RETRIES + 1) |->
     IF i <= Len(answers) THEN answers[i] ELSE ErrorResponse]

Scripts ==
  { Script(<<Http(200, JsonDict(PayloadGood))>>),
    Script(<<Http(200, JsonDict(PayloadBadEnum))>>),
    Script(<<Http(200, JsonDict(PayloadBadShape))>>),
    Script(<<Http(200, JsonDict(PayloadMissing))>>),
    Script(<<Http(200, JsonList(required_fields))>>),
    Script(<<Http(200, NotJson)>>),
    Script(<<Http(429, NotJson), Http(200, JsonDict(PayloadGood))>>),
    Script(<<Http(204, NotJson), Http(200, JsonDict(PayloadGood))>>),
    Script(<<Http(404, NotJson)>>),
    Script(<<TimeoutResponse, Http(503, NotJson), TimeoutResponse>>) }

\* The scripts played to generate_reflection: they fail or succeed at the
\* first request, so that the tiers, not the retries, make the difference.
TierScripts == {s \in Scripts : s[1].kind = "http" /\ s[1].status \in {200, 404}}

HFResponses ==
  { Http(200, JsonDict(PayloadGood)),
    Http(200, JsonDict(PayloadMissing)),
    Http(200, JsonList(required_fields)),
    Http(200, NotJson),
    Http(503, NotJson),
    TimeoutResponse }

\* What the template generator does: it raises, or random.choice picks one of
\* these pairs of indices.
TemplateRuns ==
  [fault : BOOLEAN, reflection : {1}, poem : {3}]
    \cup [fault : {FALSE}, reflection : {3}, poem : {1}]

Env == [scripts |-> TierScripts, responses |-> HFResponses, template |-> TemplateRuns]

\* The environment of the calls that fill the cache: the first model answers.
PlainEnv ==
  [scripts |-> {Script(<<Http(200, JsonDict(PayloadGood))>>)},
   responses |-> {Http(503, NotJson)},
   template |-> [fault : {FALSE}, reflection : {1}, poem : {3}]]

\* The environment of process_input: what the emotion models, the reflection
\* providers and the art models answer, and whether the awaited art stage may
\* raise.
EmotionScripts ==
  { <<Http(200, Predictions(<<[label |-> "SADNESS", score |-> 91],
                              [label |-> "anxious", score |-> 6]>>)),
      ErrorResponse>>,
    <<Http(404, OtherBody), ErrorResponse>> }

ArtResponses == { Http(200, [png |-> "image bytes"]), Http(500, NotJson) }

PipelineEnv ==
  [emotion |-> EmotionScripts,
   scripts |-> { Script(<<Http(200, JsonDict(PayloadGood))>>),
                 Script(<<Http(200, JsonDict(PayloadBadActions))>>),
                 Script(<<Http(200, NotJson)>>) },
   responses |-> {Http(503, NotJson)},
   template |-> [fault : {FALSE}, reflection : {1}, poem : {3}],
   art |-> ArtResponses,
   art_raises |-> TRUE,
   analyze_returns |-> {}]

Contents == {TextSad, TextNoise}

\* ------------------------------------------------------------------------
\* Calls, one after the other
\* ------------------------------------------------------------------------

\* The threads of the executor that run generate_reflection.
Threads == {1, 2}

NoCall ==
  [op |-> "none", text |-> <<>>, context |-> EmptyDict, at |-> 0, raised |-> "none",
   ret |-> None, invoked |-> <<>>, requests |-> <<>>, repeat |-> FALSE]

Init ==
  /\ now = 0
  /\ ticks = 0
  /\ calls = 0
  /\ OPENROUTER_API_KEY \in ApiKeys
  /\ _reflection_cache = EmptyCache
  /\ _cache = EmptyOrchestratorCache
  /\ last = NoCall
  /\ threads = [t \in Threads |->
                  [pc |-> "idle", key |-> None, seen |-> None, raised |-> "none"]]
  /\ session_store = [sessions |-> EmptyDict, last_cleanup |-> 0]
  /\ tasks = [i \in {1, 2} |->
                [pc |-> "idle", content |-> <<>>, emotions |-> <<>>,
                 emotion_scores |-> EmptyDict, awaited |-> <<>>]]

Tick(steps) ==
  /\ ticks < MaxTicks
  /\ \E d \in steps : now' = now + d
  /\ ticks' = ticks + 1
  /\ UNCHANGED <<tasks, session_store, threads, OPENROUTER_API_KEY, _reflection_cache, _cache, last, calls>>

\* The call follows a call of the same operation with the same arguments
\* that returned less than ttl ago.
Repeats(op, text, context, ttl) ==
  /\ last.op = op
  /\ last.text = text
  /\ last.context = context
  /\ last.raised = "none"
  /\ now - last.at < ttl

GenerateReflection(inputs, contexts, env) ==
  \E input_text \in inputs, user_context \in contexts :
    \E o \in generate_reflection(_reflection_cache, now, OPENROUTER_API_KEY,
                                 input_text, user_context, env) :
      /\ _reflection_cache' = o.cache
      /\ last' = [op |-> "generate_reflection", text |-> input_text,
                  context |-> OrEmptyDict(user_context), at |-> now,
                  raised |-> o.raised,
                  ret |-> o.ret, invoked |-> o.invoked, requests |-> o.requests,
                  repeat |-> Repeats("generate_reflection", input_text,
                                     OrEmptyDict(user_context), CACHE_TTL)]
      /\ UNCHANGED <<tasks, session_store, threads, now, ticks, calls, OPENROUTER_API_KEY, _cache>>

NextRefl == Tick(TickSteps) \/ GenerateReflection(Inputs, Contexts, Env)

SpecRefl == Init /\ [][NextRefl]_vars

\* generate_reflection for a text that was never seen before: its result is
\* stored under a key of its own.
GenerateReflectionFresh(env) ==
  \E run \in reflection_tiers(OPENROUTER_API_KEY, FreshKey.text, EmptyDict, env) :
    /\ _reflection_cache' = set_cached_reflection(_reflection_cache, FreshKey, run.ret, now)
    /\ last' = [op |-> "generate_reflection", text |-> FreshKey.text,
                context |-> EmptyDict, at |-> now, raised |-> "none",
                ret |-> run.ret, invoked |-> run.invoked, requests |-> run.requests,
                repeat |-> FALSE]
    /\ UNCHANGED <<tasks, session_store, threads, now, ticks, calls, OPENROUTER_API_KEY, _cache>>

\* Calls for one text while the cache fills up with the results of others.
NextFull ==
  \/ Tick(TickSteps)
  \/ GenerateReflectionFresh(PlainEnv)
  \/ GenerateReflection({TextSad}, {CtxEmpty}, PlainEnv)

SpecFull == Init /\ [][NextFull]_vars

ProcessInput(contents, env) ==
  /\ calls < MaxCalls
  /\ \E content \in contents :
       \E o \in process_input(_cache, _reflection_cache, now, OPENROUTER_API_KEY,
                              content, env) :
         /\ _cache' = o.cache
         /\ _reflection_cache' = o.rcache
         /\ last' = [op |-> "process_input", text |-> content, context |-> EmptyDict,
                     at |-> now, raised |-> o.raised, ret |-> o.ret,
                     invoked |-> o.trace.invoked, requests |-> o.trace.requests,
                     repeat |-> Repeats("process_input", content, EmptyDict, _cache_ttl),
                     steps |-> o.trace.steps, awaited |-> o.trace.awaited,
                     handed |-> o.trace.handed, failed |-> o.trace.failed]
  /\ calls' = calls + 1
  /\ UNCHANGED <<tasks, session_store, threads, now, ticks, OPENROUTER_API_KEY>>

NextPipeline == Tick(OrchestratorTickSteps) \/ ProcessInput(Contents, PipelineEnv)

SpecPipeline == Init /\ [][NextPipeline]_vars

\* The cache functions called directly, as the tests call them.
CachedTexts == {TextSad, TextUrgent}

ReflectionKeys == {get_cache_key(text, EmptyDict).key : text \in CachedTexts}

OrchestratorKeys == {_get_cache_key(text, "emotion").key : text \in CachedTexts}

CachedResult == [reflection |-> <<"cached reflection">>]

CacheTickSteps == TickSteps \cup OrchestratorTickSteps

SetCachedReflection(keys, results) ==
  \E cache_key \in keys, result \in results :
    /\ _reflection_cache' = set_cached_reflection(_reflection_cache, cache_key, result, now)
    /\ last' = [op |-> "set_cached_reflection", key |-> cache_key, at |-> now,
                raised |-> "none", ret |-> None, entry |-> None, value |-> result]
    /\ UNCHANGED <<tasks, session_store, threads, now, ticks, calls, OPENROUTER_API_KEY, _cache>>

\* entry is what the cache held under the key when the call was made
GetCachedReflection(keys) ==
  \E cache_key \in keys :
    LET got == get_cached_reflection(_reflection_cache, cache_key, now)
    IN  /\ _reflection_cache' = got.cache
        /\ last' = [op |-> "get_cached_reflection", key |-> cache_key, at |-> now,
                    raised |-> "none", ret |-> got.value,
                    entry |-> DictGet(_reflection_cache.entries, cache_key, None)]
        /\ UNCHANGED <<tasks, session_store, threads, now, ticks, calls, OPENROUTER_API_KEY, _cache>>

SetCached(keys, results) ==
  \E key \in keys, data \in results :
    /\ _cache' = _set_cached(_cache, key, data, now)
    /\ last' = [op |-> "_set_cached", key |-> key, at |-> now,
                raised |-> "none", ret |-> None, entry |-> None, value |-> data]
    /\ UNCHANGED <<tasks, session_store, threads, now, ticks, calls, OPENROUTER_API_KEY, _reflection_cache>>

GetCached(keys) ==
  \E key \in keys :
    LET got == _get_cached(_cache, key, now)
    IN  /\ _cache' = got.cache
        /\ last' = [op |-> "_get_cached", key |-> key, at |-> now,
                    raised |-> "none", ret |-> got.value,
                    entry |-> DictGet(_cache.entries, key, None)]
        /\ UNCHANGED <<tasks, session_store, threads, now, ticks, calls, OPENROUTER_API_KEY, _reflection_cache>>

NextCache ==
  \/ Tick(CacheTickSteps)
  \/ SetCachedReflection(ReflectionKeys, {CachedResult})
  \/ GetCachedReflection(ReflectionKeys)
  \/ SetCached(OrchestratorKeys, {CachedResult})
  \/ GetCached(OrchestratorKeys)

SpecCache == Init /\ [][NextCache]_vars

\* transcribe_audio without its handler: what transcribe raises leaves the
\* call.
transcribe_audio_unguarded(transcribed) ==
  [raised |-> IF transcribed.raised THEN "Exception" ELSE "none",
   ret |-> transcribed.result]

\* AIOrchestrator.transcribe_audio(audio_file); transcribed is what the
\* awaited speech_processor.transcribe(audio_file) did: it raised an
\* Exception with a message, or returned a result.
transcribe_audio(transcribed) ==
  IF transcribed.raised
  THEN [raised |-> "none",
        ret |-> [text |-> "[Transcription failed - please try again]",
                 model_used |-> "none",
                 fallback |-> TRUE,
                 error |-> transcribed.message]]
  ELSE [raised |-> "none", ret |-> transcribed.result]

TranscribeAudio(outcomes) ==
  \E transcribed \in outcomes :
    LET o == transcribe_audio(transcribed)
    IN  /\ last = NoCall
        /\ last' = [op |-> "transcribe_audio", transcribed |-> transcribed,
                    at |-> now, raised |-> o.raised, ret |-> o.ret,
                    requests |-> transcribed.requests]
        /\ UNCHANGED <<tasks, session_store, now, ticks, calls, OPENROUTER_API_KEY, _reflection_cache, _cache, threads>>

\* How many keys never cached before a filling step caches, one call after
\* the other.
FillStep == 50

\* n calls of set_cached_reflection, each for a key never cached before; the
\* calls before the last leave the cache within its limit, so they only store.
SetCachedReflectionFresh(n, result) ==
  /\ CacheLen(_reflection_cache) + (n - 1) <= ReflectionCacheLimit
  /\ _reflection_cache' =
       set_cached_reflection([_reflection_cache EXCEPT !.others = @ + (n - 1)],
                             FreshKey, result, now)
  /\ last' = [op |-> "set_cached_reflection", key |-> FreshKey, at |-> now,
              raised |-> "none", ret |-> None, entry |-> None, value |-> result]
  /\ UNCHANGED <<tasks, session_store, threads, now, ticks, calls, OPENROUTER_API_KEY, _cache>>

\* n calls of _set_cached at the same time, each for a key never cached
\* before; the calls before the last leave the cache within its limit.
SetCachedFresh(n, data) ==
  /\ OrchestratorCacheLen(_cache) + (n - 1) <= OrchestratorCacheLimit
  /\ _cache' =
       _set_cached([_cache EXCEPT !.others = DictSet(@, now, DictGet(@, now, 0) + (n - 1))],
                   FreshOrchestratorKey, data, now)
  /\ last' = [op |-> "_set_cached", key |-> FreshOrchestratorKey, at |-> now,
              raised |-> "none", ret |-> None, entry |-> None, value |-> data]
  /\ UNCHANGED <<tasks, session_store, threads, now, ticks, calls, OPENROUTER_API_KEY, _reflection_cache>>

\* The cache functions called while the caches fill up.
NextEvict ==
  \/ Tick(CacheTickSteps)
  \/ SetCachedReflectionFresh(FillStep, CachedResult)
  \/ SetCachedFresh(FillStep, CachedResult)
  \/ SetCachedReflection(ReflectionKeys, {CachedResult})
  \/ GetCachedReflection(ReflectionKeys)
  \/ SetCached(OrchestratorKeys, {CachedResult})
  \/ GetCached(OrchestratorKeys)

SpecEvict == Init /\ [][NextEvict]_vars

\* A thread of the executor enters generate_reflection with a text that is
\* not blank: the call starts with get_cached_reflection(cache_key).
ThreadCall(t, keys) ==
  /\ threads[t].pc = "idle"
  /\ \E cache_key \in keys :
       threads' = [threads EXCEPT ![t] = [pc |-> "get_test", key |-> cache_key,
                                          seen |-> None, raised |-> "none"]]
  /\ UNCHANGED <<tasks, session_store, now, ticks, calls, OPENROUTER_API_KEY, _reflection_cache, _cache, last>>

\* One step of get_cached_reflection in thread t: the membership test, the
\* read of the entry, the comparison with the clock, the delete.  A read or a
\* delete of a key that is gone raises KeyError, which generate_reflection
\* does not catch.  After a miss the thread goes on to set_cached_reflection
\* with the result of the providers.
GetCachedReflectionStep(t) ==
  LET self == threads[t]
      present == self.key \in DOMAIN _reflection_cache.entries
      raise == [self EXCEPT !.pc = "raised", !.raised = "KeyError"]
  IN  /\ \/ /\ self.pc = "get_test"
            /\ threads' = [threads EXCEPT ![t].pc =
                             IF present THEN "get_read" ELSE "set_store"]
            /\ UNCHANGED _reflection_cache
         \/ /\ self.pc = "get_read"
            /\ threads' = [threads EXCEPT ![t] =
                             IF present
                             THEN [self EXCEPT !.pc = "get_check",
                                               !.seen = _reflection_cache.entries[self.key]]
                             ELSE raise]
            /\ UNCHANGED _reflection_cache
         \/ /\ self.pc = "get_check"
            /\ threads' = [threads EXCEPT ![t].pc =
                             IF now - self.seen.timestamp < CACHE_TTL
                             THEN "idle" ELSE "get_delete"]
            /\ UNCHANGED _reflection_cache
         \/ /\ self.pc = "get_delete"
            /\ threads' = [threads EXCEPT ![t] =
                             IF present THEN [self EXCEPT !.pc = "set_store"] ELSE raise]
            /\ _reflection_cache' =
                 IF present
                 THEN [_reflection_cache EXCEPT !.entries = DictDel(@, self.key)]
                 ELSE _reflection_cache
      /\ UNCHANGED <<tasks, session_store, now, ticks, calls, OPENROUTER_API_KEY, _cache, last>>

\* One step of set_cached_reflection in thread t: the store, the size test,
\* the clear.
SetCachedReflectionStep(t, result) ==
  LET self == threads[t]
  IN  /\ \/ /\ self.pc = "set_store"
            /\ _reflection_cache' =
                 CachePut(_reflection_cache, self.key, [result |-> result, timestamp |-> now])
            /\ threads' = [threads EXCEPT ![t].pc = "set_size"]
         \/ /\ self.pc = "set_size"
            /\ threads' = [threads EXCEPT ![t].pc =
                             IF CacheLen(_reflection_cache) > ReflectionCacheLimit
                             THEN "set_clear" ELSE "idle"]
            /\ UNCHANGED _reflection_cache
         \/ /\ self.pc = "set_clear"
            /\ _reflection_cache' = EmptyCache
            /\ threads' = [threads EXCEPT ![t].pc = "idle"]
      /\ UNCHANGED <<tasks, session_store, now, ticks, calls, OPENROUTER_API_KEY, _cache, last>>

\* generate_reflection on the threads of the executor, while the clock
\* advances and other calls fill the cache.
NextThreads ==
  \/ Tick(TickSteps)
  \/ SetCachedReflectionFresh(FillStep, CachedResult)
  \/ \E t \in Threads : ThreadCall(t, ReflectionKeys)
  \/ \E t \in Threads : GetCachedReflectionStep(t)
  \/ \E t \in Threads : SetCachedReflectionStep(t, CachedResult)

SpecThreads == Init /\ [][NextThreads]_vars

\* The texts the local generators are called with: none, one of each
\* category of detect_emotion_from_text, the crisis phrasings of the tests,
\* and one that cannot be encoded.
LocalInputs ==
  { Chars(""),
    Chars("I feel sad"),
    Chars("I'm anxious about exams"),
    Chars("I'm frustrated with my friend"),
    Chars("This is too much"),
    Chars("I feel so alone"),
    Chars("Today was fine"),
    Chars("I want to kill myself"),
    Chars("I'm thinking about ending my life"),
    Chars("I want to hurt myself"),
    Chars("I'm thinking about killing myself"),
    Chars("I feel hopeless, there is NO REASON TO LIVE"),
    TextNoise }

\* generate_template_reflection(input_text, user_context), random.choice
\* picking any of the three reflections and any of the three poems.
GenerateTemplateReflection(inputs) ==
  \E input_text \in inputs, choice \in [reflection : 1..3, poem : 1..3] :
    /\ last = NoCall
    /\ last' = [op |-> "generate_template_reflection", text |-> input_text,
                at |-> now, raised |-> "none",
                ret |-> generate_template_reflection(input_text, EmptyDict, choice)]
    /\ UNCHANGED <<tasks, session_store, now, ticks, calls, OPENROUTER_API_KEY, _reflection_cache, _cache, threads>>

\* generate_minimal_fallback(input_text, user_context)
GenerateMinimalFallback(inputs) ==
  \E input_text \in inputs :
    /\ last = NoCall
    /\ last' = [op |-> "generate_minimal_fallback", text |-> input_text,
                at |-> now, raised |-> "none",
                ret |-> generate_minimal_fallback(input_text, EmptyDict)]
    /\ UNCHANGED <<tasks, session_store, now, ticks, calls, OPENROUTER_API_KEY, _reflection_cache, _cache, threads>>

\* call_openrouter(input_text, user_context), every model answered by one of
\* two scripts.  environ is os.environ.get("OPENROUTER_API_KEY") while the
\* call runs, as the tests patch it; the function reads the module global.
CallOpenrouter(scripts) ==
  \E script \in scripts, other \in scripts, environ \in ApiKeys :
    \E run \in call_openrouter(OPENROUTER_API_KEY, {script, other}) :
      /\ last = NoCall
      /\ last' = [op |-> "call_openrouter", script |-> script, other |-> other,
                  environ |-> environ, at |-> now,
                  raised |-> IF run.ok THEN "none"
                             ELSE IF OPENROUTER_API_KEY = NoKey THEN "ValueError"
                             ELSE "RuntimeError",
                  ret |-> run.value, requests |-> run.requests]
      /\ UNCHANGED <<tasks, session_store, now, ticks, calls, OPENROUTER_API_KEY, _reflection_cache, _cache, threads>>

\* check_urgency(input_text)
CheckUrgency(inputs) ==
  \E input_text \in inputs :
    /\ last = NoCall
    /\ last' = [op |-> "check_urgency", text |-> input_text, at |-> now,
                raised |-> "none", ret |-> None, urgent |-> check_urgency(input_text)]
    /\ UNCHANGED <<tasks, session_store, now, ticks, calls, OPENROUTER_API_KEY, _reflection_cache, _cache, threads>>

\* One call in a process that has just started: a function that needs no
\* cache, or generate_reflection with the cache empty.
NextLocal ==
  \/ GenerateTemplateReflection(LocalInputs)
  \/ GenerateMinimalFallback(LocalInputs)
  \/ CheckUrgency(LocalInputs)
  \/ CallOpenrouter(
       Scripts \cup { Script(<<Http(status, NotJson), Http(200, JsonDict(PayloadGood))>>)
                      : status \in {429, 502, 503, 504} }
               \cup { Script(<<TimeoutResponse, TimeoutResponse, TimeoutResponse>>) })
  \/ TranscribeAudio(
       [raised : {TRUE}, message : {"Model unavailable", ""}, result : {None},
        requests : {<<>>}]
       \cup [raised : {FALSE}, message : {""},
             result : { [text |-> "I feel sad", model_used |-> "openai/whisper-small",
                         fallback |-> FALSE],
                        None },
             requests : {<<>>}]
       \cup { [raised |-> FALSE, message |-> "", result |-> run.value,
               requests |-> run.requests]
              : run \in SpeechProcessor_transcribe(
                          TRANSCRIPTION_MODELS, <<>>,
                          { Http(200, JsonDict([text |-> "I feel sad"])),
                            Http(200, JsonDict([text |-> ""])),
                            Http(503, NotJson),
                            TimeoutResponse }) })
  \/ last = NoCall /\ GenerateReflection(LocalInputs, {CtxEmpty}, PlainEnv)
  \/ last = NoCall /\ ProcessInput(Contents, PipelineEnv)
  \* EmotionAnalyzer.analyze with the first answer of every model transient
  \* or a 200 (with no prediction, with one) and the answer to a retry good
  \/ /\ last = NoCall
     /\ \E first \in {Http(503, OtherBody), Http(429, OtherBody), TimeoutResponse,
                      Http(200, Predictions(<<>>)),
                      Http(200, Predictions(<<[label |-> "anxious", score |-> 80]>>))} :
          LET script == <<first, Http(200, Predictions(<<[label |-> "SADNESS", score |-> 91]>>))>>
          IN  \E run \in EmotionAnalyzer_analyze(TextSad, {script}) :
                last' = [op |-> "analyze", text |-> TextSad, at |-> now, raised |-> "none",
                         answered |-> first, ret |-> run.value, requests |-> run.requests]
     /\ UNCHANGED <<tasks, session_store, threads, now, ticks, calls, OPENROUTER_API_KEY,
                    _reflection_cache, _cache>>
  \* call_huggingface_fallback with every request answered alike
  \/ /\ last = NoCall
     /\ \E response \in HFResponses :
          \E run \in call_huggingface_fallback({response}) :
            last' = [op |-> "call_huggingface_fallback", text |-> TextSad, at |-> now,
                     raised |-> IF run.ok THEN "none" ELSE "RuntimeError",
                     answered |-> response, ret |-> run.value, requests |-> run.requests]
     /\ UNCHANGED <<tasks, session_store, threads, now, ticks, calls, OPENROUTER_API_KEY,
                    _reflection_cache, _cache>>

SpecLocal == Init /\ [][NextLocal]_vars

\* process_input with emotion_analyzer.analyze patched by a mock, as
\* test_caching does: the mock returns the result of the test, a result with
\* no emotion, or an empty dict.
MockedEnv ==
  [PipelineEnv EXCEPT
     !.analyze_returns =
        { [emotions |-> <<"joy">>, scores |-> [joy |-> 90],
           model_used |-> "test", fallback |-> FALSE],
          [emotions |-> <<>>, scores |-> EmptyDict,
           model_used |-> "test", fallback |-> FALSE],
          EmptyDict }]

NextMocked == Tick(OrchestratorTickSteps) \/ ProcessInput({TextSad}, MockedEnv)

SpecMocked == Init /\ [][NextMocked]_vars

\* ------------------------------------------------------------------------
\* utils/session_store.py: SessionStore
\* ------------------------------------------------------------------------

\* get_session that leaves an expired session in the store.
get_session_keeping(store, token, t) ==
  IF token \notin DOMAIN store.sessions \/ t > store.sessions[token].expiry
  THEN [value |-> None, store |-> store]
  ELSE [value |-> store.sessions[token].data, store |-> store]

\* SessionStore.get_session(token) at time t: the value returned and the
\* store left behind.
get_session(store, token, t) ==
  IF token \notin DOMAIN store.sessions
  THEN [value |-> None, store |-> store]
  ELSE IF t > store.sessions[token].expiry
  THEN [value |-> None, store |-> [store EXCEPT !.sessions = DictDel(@, token)]]
  ELSE [value |-> store.sessions[token].data, store |-> store]

\* SessionStore.set_session(token, data, ttl): the session is stored, then
\* _cleanup_expired runs when the last cleanup is more than
\* _cleanup_interval = 300 seconds ago.
SetSession(tokens, datas, ttls) ==
  \E token \in tokens, data \in datas, ttl \in ttls :
    LET stored == DictSet(session_store.sessions, token,
                          [data |-> data, expiry |-> now + ttl])
    IN  /\ session_store' =
             IF now - session_store.last_cleanup > 300
             THEN [sessions |-> [k \in {x \in DOMAIN stored : ~(now > stored[x].expiry)}
                                   |-> stored[k]],
                   last_cleanup |-> now]
             ELSE [session_store EXCEPT !.sessions = stored]
        /\ last' = [op |-> "set_session", token |-> token, at |-> now,
                    raised |-> "none", ret |-> None, entry |-> None,
                    value |-> data, ttl |-> ttl]
        /\ UNCHANGED <<tasks, now, ticks, calls, OPENROUTER_API_KEY, _reflection_cache, _cache,
                       threads>>

\* entry is what the store held for the token when the call was made
GetSession(tokens) ==
  \E token \in tokens :
    LET got == get_session(session_store, token, now)
    IN  /\ session_store' = got.store
        /\ last' = [op |-> "get_session", token |-> token, at |-> now,
                    raised |-> "none", ret |-> got.value,
                    entry |-> DictGet(session_store.sessions, token, None)]
        /\ UNCHANGED <<tasks, now, ticks, calls, OPENROUTER_API_KEY, _reflection_cache, _cache,
                       threads>>

\* SessionStore.delete_session(token)
DeleteSession(tokens) ==
  \E token \in tokens :
    /\ session_store' = [session_store EXCEPT !.sessions = DictDel(@, token)]
    /\ last' = [op |-> "delete_session", token |-> token, at |-> now,
                raised |-> "none", ret |-> None,
                entry |-> DictGet(session_store.sessions, token, None)]
    /\ UNCHANGED <<tasks, now, ticks, calls, OPENROUTER_API_KEY, _reflection_cache, _cache,
                   threads>>

\* The wrapper of require_session calling func for every token that is not
\* empty.
require_session_unchecked(store, session_token, t) ==
  IF session_token = ""
  THEN [called |-> FALSE, session_data |-> None, store |-> store,
        ret |-> [error |-> "Missing session token", status |-> 401]]
  ELSE LET got == get_session(store, session_token, t)
       IN  [called |-> TRUE, session_data |-> got.value, store |-> got.store,
            ret |-> None]

\* app.py: the wrapper require_session(func) makes, called with
\* session_token at time t.  called: func was called, with
\* kwargs['session_data'] = session_data; ret is the error the wrapper
\* returned itself, None standing for what func returned.
require_session(store, session_token, t) ==
  IF session_token = ""
  THEN [called |-> FALSE, session_data |-> None, store |-> store,
        ret |-> [error |-> "Missing session token", status |-> 401]]
  ELSE LET got == get_session(store, session_token, t)
       IN  IF ~Truthy(got.value)
           THEN [called |-> FALSE, session_data |-> None, store |-> got.store,
                 ret |-> [error |-> "Invalid or expired session", status |-> 401]]
           ELSE [called |-> TRUE, session_data |-> got.value, store |-> got.store,
                 ret |-> None]

\* The calls on the session store of the application, the clock advancing to
\* the expiry of a session of one hour or past it.
NextSession ==
  \/ Tick({3600, 3601})
  \/ SetSession({"token-a", "token-b"}, {[profile |-> "ann"], [profile |-> "bob"]},
                {3600, 1})
  \/ GetSession({"token-a", "token-b"})
  \/ DeleteSession({"token-a", "token-b"})
  \* an endpoint wrapped by require_session is called
  \/ /\ \E session_token \in {"", "token-a", "token-b"} :
          LET wrapped == require_session(session_store, session_token, now)
          IN  /\ session_store' = wrapped.store
              /\ last' = [op |-> "require_session", token |-> session_token, at |-> now,
                          raised |-> "none", ret |-> wrapped.ret,
                          entry |-> DictGet(session_store.sessions, session_token, None),
                          called |-> wrapped.called,
                          session_data |-> wrapped.session_data]
     /\ UNCHANGED <<tasks, now, ticks, calls, OPENROUTER_API_KEY, _reflection_cache, _cache,
                    threads>>
  \* SessionStore.refresh_session(token, ttl): False for a token that is not
  \* in the store, else the session gets the expiry now + ttl; refreshed is
  \* the value returned
  \/ /\ \E token \in {"token-a", "token-b"}, ttl \in {3600} :
          LET found == token \in DOMAIN session_store.sessions
          IN  /\ session_store' =
                   IF found
                   THEN [session_store EXCEPT !.sessions[token].expiry = now + ttl]
                   ELSE session_store
              /\ last' = [op |-> "refresh_session", token |-> token, at |-> now,
                          raised |-> "none", ret |-> None,
                          entry |-> DictGet(session_store.sessions, token, None),
                          refreshed |-> found, ttl |-> ttl]
     /\ UNCHANGED <<tasks, now, ticks, calls, OPENROUTER_API_KEY, _reflection_cache, _cache,
                    threads>>

SpecSession == Init /\ [][NextSession]_vars

\* ------------------------------------------------------------------------
\* orchestrator.py: process_input as coroutines of one event loop
\* ------------------------------------------------------------------------

\* Two calls of process_input run as tasks of the event loop.  A task runs
\* alone from one await to the next: it is suspended while the analyzer, the
\* reflection generator or the art generator it awaits works in the executor
\* (pc = "await_emotion", "await_reflection", "await_art"), and the other task
\* may run meanwhile.  awaited lists the generators a task has awaited.
NextOverlap ==
  LET \* lines 106-125 up to the await: the reflection lookup that follows the
      \* emotion stage, with the orchestrator's cache as that stage left it
      to_reflection(i, self, emotion_result, cache) ==
        LET emotions == DictGet(emotion_result, "emotions", <<"neutral">>)
            primary_emotion == IF emotions # <<>> THEN emotions[1] ELSE "neutral"
            got == _get_cached(cache,
                               _get_cache_key(self.content \o <<":", primary_emotion>>,
                                              "reflection").key, now)
            found == [self EXCEPT !.emotions = emotions,
                                  !.emotion_scores = DictGet(emotion_result, "scores", EmptyDict)]
        IN  /\ _cache' = got.cache
            /\ tasks' = [tasks EXCEPT ![i] =
                 IF Truthy(got.value)
                 THEN [found EXCEPT !.pc = "await_art",
                                    !.awaited = Append(@, "art_generator.generate")]
                 ELSE [found EXCEPT !.pc = "await_reflection",
                                    !.awaited = Append(@, "reflection_generator.generate")]]
  IN  \* lines 92-98: the task starts and looks up the emotion result
      \/ \E i \in {1, 2}, content \in Contents :
           LET self == [tasks[i] EXCEPT !.content = content]
               got == _get_cached(_cache, _get_cache_key(content, "emotion").key, now)
           IN  /\ tasks[i].pc = "idle"
               /\ IF Truthy(got.value)
                  THEN to_reflection(i, self, got.value, got.cache)
                  ELSE /\ _cache' = got.cache
                       /\ tasks' = [tasks EXCEPT ![i] =
                            [self EXCEPT !.pc = "await_emotion",
                                         !.awaited = <<"emotion_analyzer.analyze">>]]
               /\ UNCHANGED <<session_store, threads, now, ticks, calls, OPENROUTER_API_KEY,
                              _reflection_cache, last>>
      \* lines 98-99: analyze returns, its result is cached
      \/ \E i \in {1, 2} :
           /\ tasks[i].pc = "await_emotion"
           /\ \E run \in EmotionAnalyzer_analyze(tasks[i].content, PipelineEnv.emotion) :
                to_reflection(i, tasks[i], run.value,
                              _set_cached(_cache,
                                          _get_cache_key(tasks[i].content, "emotion").key,
                                          run.value, now))
           /\ UNCHANGED <<session_store, threads, now, ticks, calls, OPENROUTER_API_KEY,
                          _reflection_cache, last>>
      \* lines 114-132: generate returns, its result is cached, the art stage
      \* starts; an exception ends the call in the handler
      \/ \E i \in {1, 2} :
           LET self == tasks[i]
               primary_emotion == IF self.emotions # <<>> THEN self.emotions[1] ELSE "neutral"
           IN  /\ self.pc = "await_reflection"
               /\ \E o \in ReflectionGenerator_generate(
                             _reflection_cache, now, OPENROUTER_API_KEY, self.content,
                             primary_emotion, self.emotion_scores, PipelineEnv) :
                    /\ _reflection_cache' = o.cache
                    /\ IF o.raised # "none"
                       THEN /\ tasks' = [tasks EXCEPT ![i].pc = "done"]
                            /\ UNCHANGED _cache
                       ELSE /\ _cache' =
                                 _set_cached(_cache,
                                             _get_cache_key(self.content
                                                              \o <<":", primary_emotion>>,
                                                            "reflection").key,
                                             o.ret, now)
                            /\ tasks' = [tasks EXCEPT ![i] =
                                 [self EXCEPT !.pc = "await_art",
                                              !.awaited = Append(@, "art_generator.generate")]]
               /\ UNCHANGED <<session_store, threads, now, ticks, calls, OPENROUTER_API_KEY,
                              last>>
      \* lines 134-148: the art generator returns and so does the call
      \/ \E i \in {1, 2} :
           /\ tasks[i].pc = "await_art"
           /\ tasks' = [tasks EXCEPT ![i].pc = "done"]
           /\ UNCHANGED <<session_store, threads, now, ticks, calls, OPENROUTER_API_KEY,
                          _reflection_cache, _cache, last>>

SpecOverlap == Init /\ [][NextOverlap]_vars

\* ------------------------------------------------------------------------
\* Properties
\* ------------------------------------------------------------------------

\* C1: generate_reflection is total: whatever the input text and whatever the
\* providers answer, it raises nothing and returns a dict (never None) that
\* satisfies validate_reflection_json.
C1_GenerateReflectionTotal ==
  last.op = "generate_reflection" =>
    /\ last.raised = "none"
    /\ last.ret # None
    /\ validate_reflection_json(JsonDict(last.ret))

ResultKeys ==
  {"emotions", "emotion_scores", "reflection", "poem", "advice", "art_image",
   "model_versions", "processing_time", "fallback_used"}

\* C2: process_input never raises to its caller: whatever the content and
\* whichever stage raises, it returns a dict holding every key of ResultKeys.
C2_ProcessInputNeverRaises ==
  last.op = "process_input" =>
    /\ last.raised = "none"
    /\ ResultKeys \subseteq DOMAIN last.ret

\* C2's case: the reflection stage raised inside a call of process_input.
C2_ReflectionStageRaised ==
  /\ last.op = "process_input"
  /\ last.failed = "reflection"
  /\ "reflection_generator.generate" \in {last.awaited[i] : i \in DOMAIN last.awaited}

\* C3: for a text containing a crisis phrase generate_reflection returns the
\* minimal response (source minimal_fallback, severity urgent) and invokes
\* neither call_openrouter nor call_huggingface_fallback: no request is sent.
C3_CrisisIsMinimalAndLocal ==
  (last.op = "generate_reflection" /\ check_urgency(last.text)) =>
    /\ last.raised = "none"
    /\ DictGet(last.ret, "source", "") = "minimal_fallback"
    /\ DictGet(last.ret, "severity", "") = "urgent"
    /\ last.invoked \in {<<>>, <<"generate_minimal_fallback">>}
    /\ last.requests = <<>>

\* C4: a call of generate_reflection that repeats the call before it (same
\* text, same context, less than CACHE_TTL later) invokes no provider and is
\* served from the cache with from_cache = true, whatever the cache held
\* before the first of the two.
C4_RepeatServedFromCache ==
  (last.op = "generate_reflection" /\ last.repeat) =>
    /\ last.invoked = <<>>
    /\ last.requests = <<>>
    /\ DictGet(last.ret, "from_cache", FALSE) = TRUE

\* C5: an entry stored at time T is not returned by the matching get at any
\* time now >= T + ttl: get_cached_reflection with CACHE_TTL, _get_cached with
\* _cache_ttl.
C5_ExpiredNeverReturned ==
  /\ (last.op = "get_cached_reflection" /\ last.entry # None
        /\ last.at >= last.entry.timestamp + CACHE_TTL) => last.ret = None
  /\ (last.op = "_get_cached" /\ last.entry # None
        /\ last.at >= last.entry.timestamp + _cache_ttl) => last.ret = None

\* C5's case: a get at the very second the entry it finds expires.
C5_ReadAtExpiry ==
  /\ last.op = "get_cached_reflection"
  /\ last.entry # None
  /\ last.at = last.entry.timestamp + CACHE_TTL
  /\ last.ret = None

\* The results of the emotion and reflection stages of the last call of
\* process_input, as the orchestrator's cache holds them.
EmotionResult == _cache.entries[_get_cache_key(last.text, "emotion").key].data

PrimaryEmotion ==
  IF last.ret.emotions # <<>> THEN last.ret.emotions[1] ELSE "neutral"

ReflectionResult ==
  _cache.entries[_get_cache_key(last.text \o <<":", PrimaryEmotion>>, "reflection").key].data

\* C6: when the art stage raises, the result keeps what the emotion and the
\* reflection stage produced (emotions, emotion_scores, reflection, poem,
\* advice), records one error, that of the art stage, and has
\* fallback_used = true.
C6_ArtFailureKeepsEarlierStages ==
  (last.op = "process_input" /\ last.failed = "art") =>
    /\ last.ret.emotions = EmotionResult.emotions
    /\ last.ret.emotion_scores = EmotionResult.scores
    /\ last.ret.reflection = ReflectionResult.reflection
    /\ last.ret.reflection # <<>>
    /\ last.ret.poem = ReflectionResult.poem
    /\ last.ret.advice = ReflectionResult.advice
    /\ last.ret.error = "art stage failed"
    /\ last.ret.fallback_used = TRUE

\* C6's case: the art stage raised after a provider's reflection was taken.
C6_ArtStageRaised ==
  /\ last.op = "process_input"
  /\ last.failed = "art"
  /\ last.ret.model_versions["reflection"] = OPENROUTER_MODEL
  /\ last.ret.art_image = None

\* C7: when the emotion step or the reflection step raises, the later stages
\* are still executed and their results appear in the returned dict.
C7_FaultDoesNotAbortPipeline ==
  (last.op = "process_input" /\ last.failed \in {"emotion", "reflection"}) =>
    /\ last.steps = <<"emotion", "reflection", "art">>
    /\ "art" \in DOMAIN last.ret.model_versions
    /\ last.ret.art_image # None

\* C8: when the second model of the OpenRouter chain resolves the reflection
\* (the first one having answered what cannot be parsed), model_used is the
\* second model's id and the result is reported as degraded: fallback = true
\* in the result of ReflectionGenerator.generate and fallback_used = true in
\* that of process_input.
C8_SecondProviderIsDegraded ==
  (/\ last.op = "process_input"
   /\ last.failed = "none"
   /\ "reflection_generator.generate" \in {last.awaited[i] : i \in DOMAIN last.awaited}
   /\ Len(last.invoked) = 1
   /\ \E i \in DOMAIN last.requests :
        /\ last.requests[i] = models_to_try[1]
        /\ i < Len(last.requests) /\ last.requests[i + 1] = models_to_try[2]
        /\ \A j \in DOMAIN last.requests : j > i + 1 => last.requests[j] \notin
             {FREE_MODELS[m] : m \in DOMAIN FREE_MODELS}) =>
    /\ last.ret.model_versions["reflection"] = models_to_try[2]
    /\ ReflectionResult.fallback = TRUE
    /\ last.ret.fallback_used = TRUE

PrimaryModel ==
  [emotion |-> EMOTION_MODELS[1], reflection |-> OPENROUTER_MODEL, art |-> ART_MODELS[1]]

\* The stage was resolved, by a provider other than its first one
BelowPrimary(stage) ==
  /\ stage \in DOMAIN last.ret.model_versions
  /\ last.ret.model_versions[stage] # PrimaryModel[stage]

\* C9: fallback_used is true whenever a stage was resolved below its first
\* provider (from the cache too), and false when the three stages were
\* resolved by their first provider and no error occurred.
C9_FallbackUsedTellsTheTier ==
  last.op = "process_input" =>
    /\ (\E stage \in DOMAIN PrimaryModel : BelowPrimary(stage))
         => last.ret.fallback_used = TRUE
    /\ ( /\ last.failed = "none"
         /\ \A stage \in DOMAIN PrimaryModel :
              /\ stage \in DOMAIN last.ret.model_versions
              /\ ~BelowPrimary(stage) )
         => last.ret.fallback_used = FALSE

\* Structural validation as the specification states it: the required fields,
\* severity and tone of their enumerations, micro_actions a sequence of
\* {label, integer duration_seconds, instruction}.
StructurallyValid(data) ==
  /\ required_fields \subseteq DOMAIN data
  /\ data.severity \in {"calm", "notice", "urgent"}
  /\ data.tone \in {"gentle", "encouraging", "practical", "creative"}
  /\ \A i \in DOMAIN data.micro_actions :
       /\ {"label", "duration_seconds", "instruction"} \subseteq DOMAIN data.micro_actions[i]
       /\ data.micro_actions[i].duration_seconds \in Nat

\* C10: what generate_reflection returns from a provider passed structural
\* validation, enumerations and shape included: a payload that fails it is
\* discarded.
C10_OnlyValidPayloadsReturned ==
  (/\ last.op = "generate_reflection"
   /\ last.raised = "none"
   /\ DictGet(last.ret, "source", "") \in {"openrouter", "huggingface"}) =>
    StructurallyValid(last.ret)


\* C11: a put never evicts the entry it inserts: right after
\* set_cached_reflection(key, value) or _set_cached(key, value) returned, the
\* matching get of that key returns value, also when the insert took the
\* cache over its limit of 100 entries.
C11_PutKeepsItsEntry ==
  /\ (last.op = "set_cached_reflection" /\ last.key # FreshKey) =>
        get_cached_reflection(_reflection_cache, last.key, last.at).value = last.value
  /\ (last.op = "_set_cached" /\ last.key # FreshOrchestratorKey) =>
        _get_cached(_cache, last.key, last.at).value = last.value


\* C12: the reflection cache is safe under concurrent callers: in every
\* interleaving of the steps of get_cached_reflection and
\* set_cached_reflection run by the threads of the executor, no call raises,
\* and what a reader has read is a complete (result, timestamp) entry or
\* nothing.
C12_ConcurrentCallersNeverRaise ==
  \A t \in Threads :
    /\ threads[t].raised = "none"
    /\ \/ threads[t].seen = None
       \/ DOMAIN threads[t].seen = {"result", "timestamp"}


\* C13: for every input text, what generate_template_reflection and
\* generate_minimal_fallback return has the fields reflection, poem_line,
\* micro_actions, severity, tone, explainability and source, a severity and a
\* tone of their enumerations, and at least one micro action, each with a
\* label, an integer duration_seconds and an instruction.
C13_LocalGeneratorsWellFormed ==
  last.op \in {"generate_template_reflection", "generate_minimal_fallback"} =>
    /\ last.raised = "none"
    /\ {"reflection", "poem_line", "micro_actions", "severity", "tone",
        "explainability", "source"} \subseteq DOMAIN last.ret
    /\ last.ret.severity \in {"calm", "notice", "urgent"}
    /\ last.ret.tone \in {"gentle", "encouraging", "practical", "creative"}
    /\ Len(last.ret.micro_actions) > 0
    /\ \A i \in DOMAIN last.ret.micro_actions :
         /\ {"label", "duration_seconds", "instruction"}
              \subseteq DOMAIN last.ret.micro_actions[i]
         /\ last.ret.micro_actions[i].duration_seconds \in Int

\* Both generators were called: the template one for a crisis text, the
\* minimal one for a text without a keyword.
C13_BothGeneratorsCalled ==
  \/ /\ last.op = "generate_template_reflection"
     /\ last.ret.severity = "urgent"
     /\ last.ret.tone = "gentle"
  \/ /\ last.op = "generate_minimal_fallback"
     /\ last.ret.severity = "notice"


\* C14: the category generate_template_reflection selects is a function of
\* the input text alone (the one detect_emotion_from_text gives), and the
\* reflection, the poem line and the tone are those of EMOTION_TEMPLATES for
\* exactly that category: random.choice only picks within the category.  For
\* a crisis text the message of the crisis resources follows the reflection.
C14_TemplateOfDetectedCategory ==
  last.op = "generate_template_reflection" =>
    LET emotion == detect_emotion_from_text(last.text)
        template == EMOTION_TEMPLATES[emotion]
    IN  /\ last.ret.explainability = <<"Detected emotion: ", emotion>>
        /\ \E i \in DOMAIN template.reflections :
             last.ret.reflection[1] = template.reflections[i]
        /\ \A j \in 2..Len(last.ret.reflection) :
             last.ret.reflection[j] = EMERGENCY_RESOURCES.global
        /\ \E i \in DOMAIN template.poems : last.ret.poem_line = template.poems[i]
        /\ last.ret.tone = template.tone

\* A text of the category overwhelmed got the third reflection and the second
\* poem of that category.
C14_OverwhelmedThirdReflection ==
  /\ last.op = "generate_template_reflection"
  /\ detect_emotion_from_text(last.text) = "overwhelmed"
  /\ last.ret.reflection = <<"overwhelmed.reflections[2]">>
  /\ last.ret.poem_line = "overwhelmed.poems[1]"


\* C15: check_urgency is true for "I want to kill myself", "I'm thinking
\* about ending my life" and "I want to hurt myself", and generate_reflection
\* for "I'm thinking about killing myself" returns severity = urgent: the
\* inflected forms of the crisis phrases are recognised.
C15_InflectedCrisisPhrasesUrgent ==
  /\ ( /\ last.op = "check_urgency"
       /\ last.text \in {Chars("I want to kill myself"),
                         Chars("I'm thinking about ending my life"),
                         Chars("I want to hurt myself")} )
       => last.urgent
  /\ ( /\ last.op = "generate_reflection"
       /\ last.raised = "none"
       /\ last.text = Chars("I'm thinking about killing myself") )
       => last.ret.severity = "urgent"


\* C16: for an input that contains a crisis keyword, generate_minimal_fallback
\* returns severity = urgent and a reflection that embeds the message of the
\* crisis resources and contains the word "emergency", whatever its case.
C16_MinimalCrisisSaysEmergency ==
  (last.op = "generate_minimal_fallback" /\ check_urgency(last.text)) =>
    /\ last.ret.severity = "urgent"
    /\ \E i \in DOMAIN last.ret.reflection :
         last.ret.reflection[i] = EMERGENCY_RESOURCES.global
    /\ \E i \in DOMAIN last.ret.reflection :
         Contains(Lower(Chars(last.ret.reflection[i])), Chars("emergency"))


\* C17: for an empty or whitespace-only input_text generate_reflection
\* returns the minimal fallback (source = minimal_fallback), leaves the
\* reflection cache as it was, and invokes no provider and sends no request.
C17_BlankInputTouchesNothing ==
  [][ (last'.op = "generate_reflection" /\ last'.text \in {TextEmpty, TextBlank}) =>
        /\ last'.raised = "none"
        /\ last'.ret.source = "minimal_fallback"
        /\ _reflection_cache' = _reflection_cache
        /\ last'.invoked = <<"generate_minimal_fallback">>
        /\ last'.requests = <<>> ]_vars

\* A whitespace-only text got the minimal fallback while the cache held the
\* result of an earlier call.
C17_BlankAfterCachedCall ==
  /\ last.op = "generate_reflection"
  /\ last.text = TextBlank
  /\ last.ret.source = "minimal_fallback"
  /\ _reflection_cache # EmptyCache


\* C18: AIOrchestrator.transcribe_audio never raises: when
\* SpeechProcessor.transcribe raises it returns a dict with fallback = true,
\* the placeholder text, model_used = none and the message of the error, and
\* when transcribe returns a result that result is passed through unchanged.
C18_TranscribeAudioNeverRaises ==
  last.op = "transcribe_audio" =>
    /\ last.raised = "none"
    /\ IF last.transcribed.raised
       THEN /\ last.ret.fallback = TRUE
            /\ last.ret.text = "[Transcription failed - please try again]"
            /\ last.ret.model_used = "none"
            /\ last.ret.error = last.transcribed.message
       ELSE last.ret = last.transcribed.result

\* transcribe raised "Model unavailable" and the caller got the placeholder.
C18_TranscribeRaised ==
  /\ last.op = "transcribe_audio"
  /\ last.transcribed.raised
  /\ last.ret.error = "Model unavailable"


\* C19: of two calls of process_input in a row with the same content, the
\* second less than the TTL after the first, only the first invokes
\* EmotionAnalyzer.analyze, whatever the analyzer returned (an empty result
\* included): the second call takes the emotion result from the cache.
C19_SecondCallReusesEmotion ==
  [][ ( /\ last.op = "process_input"
        /\ last'.op = "process_input"
        /\ calls' = calls + 1
        /\ last'.text = last.text
        /\ now - last.at < _cache_ttl
        /\ last.awaited # <<>> /\ Head(last.awaited) = "emotion_analyzer.analyze" )
      => ~ \E i \in DOMAIN last'.awaited : last'.awaited[i] = "emotion_analyzer.analyze"
    ]_vars


\* C20: when the first answer to call_openrouter is HTTP 429, 502, 503 or 504
\* and the second a valid 200, the request is retried against the same model
\* and the call succeeds with source = openrouter after exactly two requests:
\* no other model is tried.
C20_RetryOnTheSameModel ==
  ( /\ last.op = "call_openrouter"
    /\ OPENROUTER_API_KEY # NoKey
    /\ last.script[1].kind = "http"
    /\ last.other = last.script
    /\ last.script[1].status \in {429, 502, 503, 504}
    /\ last.script[2] = Http(200, JsonDict(PayloadGood)) )
  => /\ last.raised = "none"
     /\ last.ret.source = "openrouter"
     /\ last.requests = <<models_to_try[1], models_to_try[1]>>

\* A 503 followed by a valid 200 gave a result of the first model.
C20_RetriedAfter503 ==
  /\ last.op = "call_openrouter"
  /\ last.other = last.script
  /\ last.script[1] = Http(503, NotJson)
  /\ last.raised = "none"
  /\ last.ret.model_used = OPENROUTER_MODEL
  /\ Len(last.requests) = 2


\* C21: generate_reflection walks the ladder in the order OpenRouter, Hugging
\* Face, template, minimal: for a text that is neither blank nor urgent, the
\* functions a call invoked are a prefix of that ladder (each one is invoked
\* only after the ones before it failed in that call), and the source
\* returned is that of the last one invoked, the first that succeeded.
C21_LadderInOrder ==
  ( /\ last.op = "generate_reflection"
    /\ last.raised = "none"
    /\ last.text \notin {TextEmpty, TextBlank}
    /\ ~check_urgency(last.text)
    /\ last.invoked # <<>> )
  => LET ladder == <<"call_openrouter", "call_huggingface_fallback",
                     "generate_template_reflection", "generate_minimal_fallback">>
         sources == <<"openrouter", "huggingface", "template", "minimal_fallback">>
         n == Len(last.invoked)
     IN  /\ n <= Len(ladder)
         /\ last.invoked = SubSeq(ladder, 1, n)
         /\ last.ret.source = sources[n]

\* Both remote tiers failed, the template generator raised and the minimal
\* response was returned.
C21_WalkedToTheEnd ==
  /\ last.op = "generate_reflection"
  /\ Len(last.invoked) = 4
  /\ last.ret.source = "minimal_fallback"


\* C22: get_session returns the stored data only for a token that was set
\* and whose expiry time has not passed; for an unknown, deleted or expired
\* token it returns None, and the read removes an expired token from the
\* store.  (A session just set is in the store with its data and expiry; a
\* session just deleted is not.)
C22_GetSessionOnlyLive ==
  LET sessions == session_store.sessions
  IN  /\ last.op = "get_session" =>
           IF last.entry = None
           THEN last.ret = None /\ last.token \notin DOMAIN sessions
           ELSE IF last.at > last.entry.expiry
           THEN last.ret = None /\ last.token \notin DOMAIN sessions
           ELSE last.ret = last.entry.data /\ sessions[last.token] = last.entry
      /\ (last.op = "set_session" /\ last.ttl >= 0) =>
           /\ last.token \in DOMAIN sessions
           /\ sessions[last.token] = [data |-> last.value, expiry |-> last.at + last.ttl]
      /\ last.op = "delete_session" => last.token \notin DOMAIN sessions

\* An expired session was read: the read returned None and removed it.
C22_ExpiredSessionRead ==
  /\ last.op = "get_session"
  /\ last.entry # None
  /\ last.at > last.entry.expiry
  /\ last.ret = None


\* C23: a provider is retried exactly once after a transient condition:
\* during one resolution no model receives more than two requests, the
\* attempt and one retry.
C23_AtMostTwoRequestsPerModel ==
  last.op \in {"call_openrouter", "process_input", "generate_reflection"} =>
    \A i \in DOMAIN last.requests :
      Cardinality({j \in DOMAIN last.requests : last.requests[j] = last.requests[i]}) <= 2


\* C24: an HTTP 200 whose content is not JSON or fails validate_reflection_json
\* is one failure of the model that got it: that model is not asked again, the
\* error does not leave call_openrouter (which raises only when every model
\* failed), and the chain goes on with the next model; both kinds of failure
\* are handled the same way.  Here a model is answered by such a 200 or by a
\* valid one.
C24_InvalidAnswerAdvancesChain ==
  ( /\ last.op = "call_openrouter"
    /\ OPENROUTER_API_KEY # NoKey
    /\ last.script \in {Script(<<Http(200, NotJson)>>),
                        Script(<<Http(200, JsonDict(PayloadMissing))>>)}
    /\ last.other = Script(<<Http(200, JsonDict(PayloadGood))>>) )
  => LET n == Len(last.requests)
     IN  /\ n \in 1..Len(models_to_try)
         /\ last.requests = SubSeq(models_to_try, 1, n)
         /\ IF last.raised = "none"
            THEN /\ last.ret.source = "openrouter"
                 /\ last.ret.model_used = models_to_try[n]
            ELSE /\ last.raised = "RuntimeError"
                 /\ n = Len(models_to_try)

\* The first model answered 200 with text that is not JSON and the second
\* model gave the result.
C24_SecondModelAfterParseFailure ==
  /\ last.op = "call_openrouter"
  /\ last.script = Script(<<Http(200, NotJson)>>)
  /\ last.raised = "none"
  /\ last.requests = SubSeq(models_to_try, 1, 2)


\* C25: EmotionAnalyzer.analyze, ArtGenerator.generate and
\* SpeechProcessor.transcribe try the models of their registry list in list
\* order: the requests of a resolution go to the first model, then to the
\* next one only after the one before gave no result, and no model is asked
\* after the first that gave a result, whose id is the model_used returned.
C25_ModelsTriedInListOrder ==
  LET InOrder(models, used) ==
        LET listed(m) == \E i \in DOMAIN models : models[i] = m
            idx(m) == CHOOSE i \in DOMAIN models : models[i] = m
            mine == SelectSeq(last.requests, listed)
            n == Len(mine)
        IN  /\ n > 0 => idx(mine[1]) = 1
            /\ \A i \in 1..(n - 1) : idx(mine[i + 1]) \in {idx(mine[i]), idx(mine[i]) + 1}
            /\ IF listed(used) THEN n > 0 /\ mine[n] = used
               ELSE n > 0 => idx(mine[n]) = Len(models)
  IN  /\ (last.op = "process_input" /\ last.raised = "none") =>
           /\ InOrder(EMOTION_MODELS, DictGet(last.ret.model_versions, "emotion", ""))
           /\ InOrder(ART_MODELS, DictGet(last.ret.model_versions, "art", ""))
      /\ (last.op = "transcribe_audio" /\ ~last.transcribed.raised /\ last.ret # None) =>
           InOrder(TRANSCRIPTION_MODELS, last.ret.model_used)

\* The second emotion model and the second art model gave the results.
C25_SecondModelsAnswered ==
  /\ last.op = "process_input"
  /\ DictGet(last.ret.model_versions, "emotion", "") = EMOTION_MODELS[2]
  /\ DictGet(last.ret.model_versions, "art", "") = ART_MODELS[2]


\* C26: when the template generator raises and generate_reflection falls
\* through to the minimal response, the minimal result is not stored in the
\* reflection cache: after such a call the cache holds no entry under the
\* key of the input.
C26_MinimalAfterFaultNotCached ==
  ( /\ last.op = "generate_reflection"
    /\ last.raised = "none"
    /\ last.invoked = <<"call_openrouter", "call_huggingface_fallback",
                        "generate_template_reflection", "generate_minimal_fallback">> )
  => get_cache_key(last.text, last.context).key \notin DOMAIN _reflection_cache.entries


\* C27: a template reflection is cached with a shorter time-to-live than a
\* provider-produced one: whenever generate_reflection serves a template
\* result from the cache, an OpenRouter result written at the same time is
\* still served one second later.
C27_TemplateEntryExpiresEarlier ==
  ( /\ last.op = "generate_reflection"
    /\ last.raised = "none"
    /\ last.text \notin {TextEmpty, TextBlank}
    /\ last.invoked = <<>>
    /\ DictGet(last.ret, "source", "") = "template" )
  => LET key == get_cache_key(last.text, last.context).key
         provider == [_reflection_cache EXCEPT
                        !.entries[key].result = DictSet(@, "source", "openrouter")]
     IN  Truthy(get_cached_reflection(provider, key, last.at + 1).value)


\* C28: in process_input the emotion stage comes before the reflection stage
\* and the reflection stage before the art stage, and the emotion handed to
\* ReflectionGenerator.generate and to ArtGenerator.generate is the first
\* label of the emotions found, or "neutral" when there is none.
C28_StagesInOrderWithPrimaryEmotion ==
  last.op = "process_input" =>
    LET stages == <<"emotion", "reflection", "art">>
        generators == <<"emotion_analyzer.analyze", "reflection_generator.generate",
                        "art_generator.generate">>
        position(a) == CHOOSE i \in DOMAIN generators : generators[i] = a
        emotions == last.ret.emotions
        primary_emotion == IF emotions # <<>> THEN emotions[1] ELSE "neutral"
    IN  /\ Len(last.steps) \in 1..3
        /\ last.steps = SubSeq(stages, 1, Len(last.steps))
        /\ \A i \in DOMAIN last.awaited :
             /\ last.awaited[i] \in {generators[j] : j \in 1..Len(last.steps)}
             /\ \A j \in DOMAIN last.awaited :
                  i < j => position(last.awaited[i]) < position(last.awaited[j])
        /\ Len(last.handed) =
             Len(SelectSeq(last.awaited, LAMBDA a : a # "emotion_analyzer.analyze"))
        /\ \A i \in DOMAIN last.handed : last.handed[i] = primary_emotion
        /\ emotions \in {<<"joy">>, <<"neutral">>, <<>>}

\* The three stages ran for a result with an emotion, and for one with none.
C28_JoyHandedToBoth ==
  /\ last.op = "process_input"
  /\ last.steps = <<"emotion", "reflection", "art">>
  /\ last.handed = <<"joy", "joy">>


\* C29: a transient condition (HTTP 503, HTTP 429 or a timeout) triggers one
\* retry of the same model before the chain goes on: EmotionAnalyzer.analyze
\* whose first model answers with one and then well sends that model two
\* requests and no other any, and call_huggingface_fallback whose requests
\* are all answered with one sends every model two requests.
C29_TransientRetriedOnce ==
  LET transient(r) == r.kind = "timeout" \/ (r.kind = "http" /\ r.status \in {503, 429})
      sent(m) == Len(SelectSeq(last.requests, LAMBDA x : x = m))
  IN  /\ (last.op = "analyze" /\ transient(last.answered)) =>
            last.requests = <<EMOTION_MODELS[1], EMOTION_MODELS[1]>>
      /\ (last.op = "call_huggingface_fallback" /\ transient(last.answered)) =>
            \A i \in DOMAIN hf_models : sent(hf_models[i]) = 2


\* C30: every stage of process_input consults the cache before its
\* generator: a call that follows, less than _cache_ttl later, a call for the
\* same content that returned without an error awaits neither
\* ArtGenerator.generate nor ReflectionGenerator.generate.
C30_RepeatAwaitsNoGenerator ==
  [][ ( /\ calls' = calls + 1
        /\ last.op = "process_input"
        /\ last'.op = "process_input"
        /\ last'.text = last.text
        /\ "error" \notin DOMAIN last.ret
        /\ last'.at - last.at < _cache_ttl )
      => \A i \in DOMAIN last'.awaited :
           last'.awaited[i] \notin {"art_generator.generate",
                                    "reflection_generator.generate"} ]_vars


\* C31: lazy expiry.  A get (_get_cached, get_cached_reflection) on an
\* expired key removes exactly that key from the cache and returns None; a
\* get on a live key or on a missing key leaves the cache as it was.
C31_GetRemovesOnlyTheExpiredKey ==
  [][ /\ ( /\ last'.op = "get_cached_reflection"
           /\ (last' # last \/ _reflection_cache' # _reflection_cache) )
         => LET key == last'.key
                entries == _reflection_cache.entries
            IN  IF key \in DOMAIN entries /\ now - entries[key].timestamp >= CACHE_TTL
                THEN /\ last'.ret = None
                     /\ _reflection_cache'.entries =
                          [k \in DOMAIN entries \ {key} |-> entries[k]]
                     /\ _reflection_cache'.others = _reflection_cache.others
                ELSE _reflection_cache' = _reflection_cache
      /\ ( /\ last'.op = "_get_cached"
           /\ (last' # last \/ _cache' # _cache) )
         => LET key == last'.key
                entries == _cache.entries
            IN  IF key \in DOMAIN entries /\ now - entries[key].timestamp >= _cache_ttl
                THEN /\ last'.ret = None
                     /\ _cache'.entries = [k \in DOMAIN entries \ {key} |-> entries[k]]
                     /\ _cache'.others = _cache.others
                ELSE _cache' = _cache ]_vars

\* A get found its key expired and removed it while the other key, stored at
\* the same time, stayed in the cache.
C31_ExpiredKeyRemovedOtherKept ==
  /\ last.op = "_get_cached"
  /\ last.entry # None
  /\ last.ret = None
  /\ last.key \notin DOMAIN _cache.entries
  /\ \E k \in DOMAIN _cache.entries : last.at - _cache.entries[k].timestamp >= _cache_ttl


\* C32: when a put makes a cache exceed its limit of 100 entries, the sweep
\* removes exactly the expired entries: after set_cached_reflection or
\* _set_cached returns, an entry of the cache as it stood with the new entry
\* stored is still there if and only if its age is less than the TTL.
C32_SweepRemovesExactlyExpired ==
  [][ /\ ( /\ last'.op = "set_cached_reflection"
           /\ (last' # last \/ _reflection_cache' # _reflection_cache) )
         => LET stored == CachePut(_reflection_cache, last'.key,
                                   [result |-> last'.value, timestamp |-> now])
            IN  CacheLen(stored) > ReflectionCacheLimit =>
                  \A k \in DOMAIN stored.entries :
                    IF now - stored.entries[k].timestamp < CACHE_TTL
                    THEN /\ k \in DOMAIN _reflection_cache'.entries
                         /\ _reflection_cache'.entries[k] = stored.entries[k]
                    ELSE k \notin DOMAIN _reflection_cache'.entries
      /\ ( /\ last'.op = "_set_cached"
           /\ (last' # last \/ _cache' # _cache) )
         => LET stored == OrchestratorCachePut(_cache, last'.key,
                                               [data |-> last'.value, timestamp |-> now])
            IN  OrchestratorCacheLen(stored) > OrchestratorCacheLimit =>
                  \A k \in DOMAIN stored.entries :
                    IF now - stored.entries[k].timestamp < _cache_ttl
                    THEN /\ k \in DOMAIN _cache'.entries
                         /\ _cache'.entries[k] = stored.entries[k]
                    ELSE k \notin DOMAIN _cache'.entries ]_vars


\* C34: a cache hit in generate_reflection changes neither what the first
\* caller received nor the stored payload.  The dict the first call returned
\* is the dict the cache stores, so no result held by the reflection cache
\* ever carries from_cache.
C34_StoredPayloadNeverFlagged ==
  \A k \in DOMAIN _reflection_cache.entries :
    "from_cache" \notin DOMAIN _reflection_cache.entries[k].result


\* C35: EmotionAnalyzer.analyze never returns a result with an empty
\* emotions list: whatever the models answer, the emotions returned hold at
\* least one label and scores has an entry for each of them.
C35_EmotionsNeverEmpty ==
  last.op = "analyze" =>
    /\ Len(last.ret.emotions) >= 1
    /\ \A i \in DOMAIN last.ret.emotions : last.ret.emotions[i] \in DOMAIN last.ret.scores


\* C36: an endpoint wrapped by require_session is never executed without a
\* valid session: for an empty, unknown or expired token the wrapper returns
\* an error of status 401 and does not call the wrapped function; otherwise
\* it calls it with the session data stored for the token.
C36_EndpointOnlyWithValidSession ==
  last.op = "require_session" =>
    IF \/ last.token = ""
       \/ last.entry = None
       \/ last.at > last.entry.expiry
    THEN /\ ~last.called
         /\ last.ret # None
         /\ last.ret.status = 401
    ELSE /\ last.called
         /\ last.session_data = last.entry.data

\* The wrapper turned down a token whose session had expired.
C36_ExpiredTokenTurnedDown ==
  /\ last.op = "require_session"
  /\ last.entry # None
  /\ last.at > last.entry.expiry
  /\ ~last.called
  /\ last.ret.status = 401


\* C37: refresh_session never revives an expired session: for a token whose
\* expiry time has passed it returns False, and a get_session that follows
\* returns None.
C37_RefreshNeverRevives ==
  ( /\ last.op = "refresh_session"
    /\ last.entry # None
    /\ last.at > last.entry.expiry )
  => /\ ~last.refreshed
     /\ get_session(session_store, last.token, now).value = None


\* C38: call_openrouter uses the API key the environment holds when it is
\* called: with OPENROUTER_API_KEY set in the environment at that time, a
\* valid HTTP 200 gives a result with source = openrouter, and requests that
\* all time out give RuntimeError.
C38_KeyOfTheEnvironmentAtTheCall ==
  ( /\ last.op = "call_openrouter"
    /\ last.environ # NoKey
    /\ last.other = last.script )
  => /\ last.script = Script(<<Http(200, JsonDict(PayloadGood))>>) =>
          /\ last.raised = "none"
          /\ last.ret.source = "openrouter"
     /\ last.script = Script(<<TimeoutResponse, TimeoutResponse, TimeoutResponse>>) =>
          last.raised = "RuntimeError"


\* C33: when two process_input calls for the same content overlap on the
\* event loop, the generator of each stage is still invoked at most once for
\* that content: two tasks with the same content never have both awaited
\* emotion_analyzer.analyze, nor both reflection_generator.generate.
C33_OverlapInvokesProviderOnce ==
  \A i \in {1, 2}, j \in {1, 2} :
    (i # j /\ tasks[i].pc # "idle" /\ tasks[j].pc # "idle"
       /\ tasks[i].content = tasks[j].content)
    => \A g \in {"emotion_analyzer.analyze", "reflection_generator.generate"} :
         ~ /\ \E x \in DOMAIN tasks[i].awaited : tasks[i].awaited[x] = g
           /\ \E y \in DOMAIN tasks[j].awaited : tasks[j].awaited[y] = g

====
